---- MODULE Spec2Model ----
(***************************************************************************)
(* Model of anki-deck-maker: the AnkiGenerator serializer                  *)
(* (lib/anki-generator.js), the glossary card assembler and the main       *)
(* pipeline of generate-decks.js.                                          *)
(*                                                                         *)
(* Strings are sequences of atoms.  An atom is either one character        *)
(* (":", "{", "c", "1", "/", ...) or a whole word that contains none of    *)
(* the characters the code inspects ("Recognition", "recognition", ...).   *)
(* String operations (split, join, template literals, the cloze regular    *)
(* expression) work on these sequences exactly as the JavaScript works on  *)
(* characters.                                                             *)
(***************************************************************************)
EXTENDS Integers, Sequences, FiniteSets, TLC

VARIABLES
  gen,       \* the current AnkiGenerator instance (its fields)
  runs,      \* the createSQLiteDatabase calls made so far, with their results
  gcIn,      \* arguments of a generateCards call
  gcOut,     \* its result
  env,       \* main: the data/ tree and the command line
  pc,        \* main: position in the pipeline
  tsvFiles,  \* main: result of findTSVFiles
  fileIdx,   \* main: index of the next file of the loop
  allCards,  \* main: cards concatenated so far
  deckOf,    \* main: baseDeck used for each file processed so far
  output,    \* main: what was written to disk
  tsvIn,     \* the file handed to a readGlossaryTSV call
  tsvOut,    \* its result
  disk,      \* anki-progress: collection.anki2, the snapshot file, the backups
  prog,      \* anki-progress: the command in progress and its local variables
  hist,      \* anki-progress: the files as they were when the commands started
  apkgFile,  \* what is stored at the output path of the package
  apkgCall   \* generateApkg: the call made and how it ended

vars ==
  <<gen, runs, gcIn, gcOut, env, pc, tsvFiles, fileIdx, allCards, deckOf, output,
    tsvIn, tsvOut, disk, prog, hist, apkgFile, apkgCall>>
genVars == <<gen, runs>>
cardVars == <<gcIn, gcOut>>
mainVars == <<env, pc, tsvFiles, fileIdx, allCards, deckOf, output>>
tsvVars == <<tsvIn, tsvOut>>
progVars == <<disk, prog, hist>>
apkgVars == <<apkgFile, apkgCall>>

(***************************************************************************)
(* Bounds                                                                  *)
(***************************************************************************)
MaxCards == 2
MaxRuns == 2
MaxEntries == 2
MaxFiles == 2

(***************************************************************************)
(* Strings                                                                 *)
(***************************************************************************)
SEP == <<":", ":">>
US == <<"US">>
SLASH == <<"/">>
NoStr == <<>>

\* Atoms in collation order (punctuation, digits, letters; lower case first).
Alphabet ==
  <<" ", "US", "-", ":", ".", "{", "}", "/", "0", "1", "2",
    "A", "B", "c", "C", "cloze", "D", "f", "g", "h",
    "production", "Production", "recognition", "Recognition", "Root",
    "T", "u", "vocabulary", "Vocabulary", "x", "y", "z">>

CharRank(a) == CHOOSE i \in 1..Len(Alphabet) : Alphabet[i] = a

\* Sum of the UTF-16 code units of an atom (String.prototype.charCodeAt).
CharCode(a) ==
  CASE a = " " -> 32 [] a = "US" -> 31 [] a = "-" -> 45 [] a = ":" -> 58
    [] a = "." -> 46 [] a = "{" -> 123 [] a = "}" -> 125 [] a = "/" -> 47
    [] a = "0" -> 48 [] a = "1" -> 49 [] a = "2" -> 50
    [] a = "A" -> 65 [] a = "B" -> 66 [] a = "c" -> 99 [] a = "C" -> 67
    [] a = "cloze" -> 541 [] a = "D" -> 68 [] a = "f" -> 102 [] a = "g" -> 103
    [] a = "h" -> 104 [] a = "production" -> 1095 [] a = "Production" -> 1063
    [] a = "recognition" -> 1185 [] a = "Recognition" -> 1153
    [] a = "Root" -> 420 [] a = "T" -> 84 [] a = "u" -> 117
    [] a = "vocabulary" -> 1080 [] a = "Vocabulary" -> 1048
    [] a = "x" -> 120 [] a = "y" -> 121 [] a = "z" -> 122

StartsAt(s, i, sep) ==
  /\ i + Len(sep) - 1 <= Len(s)
  /\ SubSeq(s, i, i + Len(sep) - 1) = sep

\* String.prototype.split(sep) for a non-empty separator.
RECURSIVE SplitFrom(_, _, _, _)
SplitFrom(s, sep, i, cur) ==
  IF i > Len(s) THEN <<cur>>
  ELSE IF StartsAt(s, i, sep)
       THEN <<cur>> \o SplitFrom(s, sep, i + Len(sep), <<>>)
       ELSE SplitFrom(s, sep, i + 1, Append(cur, s[i]))

Split(s, sep) == SplitFrom(s, sep, 1, <<>>)

\* Array.prototype.join(sep).
RECURSIVE Join(_, _)
Join(parts, sep) ==
  IF Len(parts) = 0 THEN <<>>
  ELSE IF Len(parts) = 1 THEN parts[1]
  ELSE parts[1] \o sep \o Join(Tail(parts), sep)

\* A one-atom string, and the path made of one-atom segments.
Str(a) == <<a>>
Path(segs) == Join([i \in DOMAIN segs |-> Str(segs[i])], SEP)

\* String.prototype.localeCompare: -1, 0 or 1.
RECURSIVE LocaleCompare(_, _)
LocaleCompare(a, b) ==
  IF Len(a) = 0 /\ Len(b) = 0 THEN 0
  ELSE IF Len(a) = 0 THEN -1
  ELSE IF Len(b) = 0 THEN 1
  ELSE IF CharRank(a[1]) < CharRank(b[1]) THEN -1
  ELSE IF CharRank(a[1]) > CharRank(b[1]) THEN 1
  ELSE LocaleCompare(Tail(a), Tail(b))

\* All sequences over S of length at most n.
RECURSIVE SeqsUpTo(_, _)
SeqsUpTo(S, n) ==
  IF n = 0 THEN {<<>>}
  ELSE LET shorter == SeqsUpTo(S, n - 1)
       IN shorter \cup {Append(q, x) : q \in shorter, x \in S}

(***************************************************************************)
(* Numbers above 2^31: a pair <<q, r>> stands for q * 10^9 + r.            *)
(***************************************************************************)
Billion == 1000000000

BigOf(n) == <<n \div Billion, n % Billion>>
BigAdd(b, n) == <<b[1] + ((b[2] + n) \div Billion), (b[2] + n) % Billion>>
BigLess(a, b) == a[1] < b[1] \/ (a[1] = b[1] /\ a[2] < b[2])

NoteTypeOffset == 2000000000
DeckOffset == 2100000000
DefaultDeckId == BigOf(1)

(***************************************************************************)
(* AnkiGenerator (lib/anki-generator.js)                                   *)
(***************************************************************************)
\* parseInt(sha1(key).hex.slice(0, 8), 16) % 1000000000 for the keys the
\* constructor hashes.
Sha1Residue(key) ==
  CASE key = "JW::Vocabulary" -> 893831107
    [] key = "JW::Spanish Glossary v1" -> 995060146
    [] key = "Cloze" -> 251545321

StableNumericId(key, offset) == BigAdd(BigOf(offset), Sha1Residue(key))

NoteTypeName(mode) == IF mode = "cloze" THEN "Cloze" ELSE "JW::Spanish Glossary v1"

Constructor(mode) ==
  [mode |-> mode,
   noteTypeId |-> StableNumericId(NoteTypeName(mode), NoteTypeOffset),
   deckId |-> StableNumericId("JW::Vocabulary", DeckOffset),
   nextDeckId |-> BigAdd(StableNumericId("JW::Vocabulary", DeckOffset), 1),
   nextNoteId |-> 1,
   nextCardId |-> 1]

\* SHA-1 of String(x), base64url, first 16 characters.  The digest is kept
\* symbolic: equal inputs give equal digests and different inputs different
\* ones (no collision inside the bounds).
GenerateGuidFromUid(x) == <<"sha1", x>>

ChecksumModulus == 2147483647

RECURSIVE CodeSum(_)
CodeSum(data) == IF Len(data) = 0 THEN 0 ELSE CharCode(data[1]) + CodeSum(Tail(data))

GenerateChecksum(data) == CodeSum(data) % ChecksumModulus

\* ---- createDeckStructure ------------------------------------------------
\* Variant: only the card's own deck, no ancestors.
DeckNamesOfLeafOnly(card) == {card.deck}

DeckNamesOf(card) ==
  LET parts == Split(card.deck, SEP)
  IN {Join(SubSeq(parts, 1, i), SEP) : i \in 1..Len(parts)}

DeckNames(cards) == UNION {DeckNamesOf(cards[k]) : k \in DOMAIN cards}

Depth(name) == Len(Split(name, SEP))

\* Variant: names compared without looking at the depth.
DeckCompareNameOnly(a, b) == LocaleCompare(a, b)

\* The comparator handed to Array.prototype.sort.
DeckCompare(a, b) ==
  IF Depth(a) # Depth(b) THEN Depth(a) - Depth(b) ELSE LocaleCompare(a, b)

RECURSIVE SortNames(_)
SortNames(S) ==
  IF S = {} THEN <<>>
  ELSE LET m == CHOOSE x \in S : \A y \in S : DeckCompare(x, y) <= 0
       IN <<m>> \o SortNames(S \ {m})

\* Id given to the k-th name of the sorted list (currentDeckId++).
DeckIdAt(nextDeckId, k) == BigAdd(nextDeckId, k - 1)

\* A JavaScript object: its keys in insertion order and the value of each.
CreateDeckStructure(cards, nextDeckId) ==
  LET sortedNames == SortNames(DeckNames(cards))
      pos(n) == CHOOSE k \in 1..Len(sortedNames) : sortedNames[k] = n
  IN [decks |-> [keys |-> sortedNames,
                 val |-> [n \in DeckNames(cards) |->
                            [id |-> DeckIdAt(nextDeckId, pos(n)), name |-> n]]],
      nextDeckId |-> BigAdd(nextDeckId, Len(sortedNames))]

\* ---- insertDecks --------------------------------------------------------
DefaultDeck == [id |-> DefaultDeckId, name |-> <<"Default">>]

RECURSIVE AddDecks(_, _, _)
AddDecks(allDecks, decks, k) ==
  IF k > Len(decks.keys) THEN allDecks
  ELSE LET d == decks.val[decks.keys[k]]
       IN AddDecks((d.id :> [id |-> d.id, name |-> d.name]) @@ allDecks, decks, k + 1)

\* The object serialised into col.decks, keyed by deck id.
InsertDecks(decks) == AddDecks((DefaultDeckId :> DefaultDeck), decks, 1)

\* decks[card.deck]?.id || 1
DeckLookup(decks, name) ==
  IF name \in DOMAIN decks.val THEN decks.val[name].id ELSE DefaultDeckId

\* ---- insertNotesAndCards ------------------------------------------------
Undefined == <<"<undefined>">>

\* Variant: a new card is due at the position of its card id.
NewCardRowDueCardId(cardId, noteId, deckId, ord) ==
  [id |-> cardId, nid |-> noteId, did |-> deckId, ord |-> ord,
   type |-> 0, queue |-> 0, due |-> cardId, ivl |-> 0, factor |-> 2500,
   reps |-> 0, lapses |-> 0, left |-> 0, odue |-> 0, odid |-> 0,
   flags |-> 0, data |-> NoStr]

NewCardRow(cardId, noteId, deckId, ord) ==
  [id |-> cardId, nid |-> noteId, did |-> deckId, ord |-> ord,
   type |-> 0, queue |-> 0, due |-> noteId, ivl |-> 0, factor |-> 2500,
   reps |-> 0, lapses |-> 0, left |-> 0, odue |-> 0, odid |-> 0,
   flags |-> 0, data |-> NoStr]

JoinTags(card) == IF card.tags # Undefined THEN Join(card.tags, <<" ">>) ELSE NoStr

\* card.uid || `${card.deck}::${card.type}::${card.front}::${card.back}`
GlossaryUid(card) ==
  IF card.uid # NoStr THEN card.uid
  ELSE card.deck \o SEP \o card.type \o SEP \o card.front \o SEP \o card.back

\* Variant: an empty direction label counts as no label.
DirectionDefaultsWhenEmpty(card) ==
  IF card.directionLabel # Undefined /\ card.directionLabel # NoStr THEN card.directionLabel
  ELSE IF card.type = <<"recognition">> THEN <<"Recognition">> ELSE <<"Production">>

Direction(card) ==
  IF card.directionLabel # Undefined THEN card.directionLabel
  ELSE IF card.type = <<"recognition">> THEN <<"Recognition">> ELSE <<"Production">>

\* Variant: the guid is derived from the note id instead of the uid.
GlossaryNoteRowGuidFromNoteId(card, noteId, mid, k) ==
  LET uid == GlossaryUid(card)
  IN [id |-> noteId, guid |-> GenerateGuidFromUid(noteId), mid |-> mid,
      tags |-> JoinTags(card),
      flds |-> uid \o US \o card.front \o US \o card.back \o US \o Direction(card),
      sfld |-> card.front, csum |-> GenerateChecksum(uid),
      flags |-> 0, data |-> NoStr, src |-> k]

\* The note row written for the k-th input card (src records k; it is not a
\* column of the table).
GlossaryNoteRow(card, noteId, mid, k) ==
  LET uid == GlossaryUid(card)
  IN [id |-> noteId, guid |-> GenerateGuidFromUid(uid), mid |-> mid,
      tags |-> JoinTags(card),
      flds |-> uid \o US \o card.front \o US \o card.back \o US \o Direction(card),
      sfld |-> card.front, csum |-> GenerateChecksum(uid),
      flags |-> 0, data |-> NoStr, src |-> k]

InsertGlossary(g, cards, decks) ==
  [notes |-> [k \in 1..Len(cards) |->
                GlossaryNoteRow(cards[k], g.nextNoteId + k - 1, g.noteTypeId, k)],
   cards |-> [k \in 1..Len(cards) |->
                NewCardRow(g.nextCardId + k - 1, g.nextNoteId + k - 1,
                           DeckLookup(decks, cards[k].deck), 0)],
   nextNoteId |-> g.nextNoteId + Len(cards),
   nextCardId |-> g.nextCardId + Len(cards)]

Digits == {"0", "1", "2"}

DigitValue(d) == CASE d = "0" -> 0 [] d = "1" -> 1 [] d = "2" -> 2

\* parseInt(digits, 10)
RECURSIVE ParseInt(_)
ParseInt(ds) ==
  IF Len(ds) = 0 THEN 0
  ELSE 10 * ParseInt(SubSeq(ds, 1, Len(ds) - 1)) + DigitValue(ds[Len(ds)])

\* Last index of the run of digits that starts at i (i - 1 when there is none).
RECURSIVE DigitsEnd(_, _)
DigitsEnd(s, i) ==
  IF i <= Len(s) /\ s[i] \in Digits THEN DigitsEnd(s, i + 1) ELSE i - 1

\* /\{\{c(\d+)::/ matched at position i.
ClozeMatchAt(s, i) ==
  /\ StartsAt(s, i, <<"{", "{", "c">>)
  /\ DigitsEnd(s, i + 3) >= i + 3
  /\ StartsAt(s, DigitsEnd(s, i + 3) + 1, SEP)

\* Variant: the ordinal is the index itself.
OrdOfIndex(n) == IF n > 0 THEN {n} ELSE {}

\* if (Number.isFinite(n) && n > 0) ords.add(n - 1)
OrdOf(n) == IF n > 0 THEN {n - 1} ELSE {}

\* The exec loop of the global regular expression, scanning from index i.
RECURSIVE ClozeOrdsFrom(_, _)
ClozeOrdsFrom(s, i) ==
  IF i > Len(s) THEN {}
  ELSE IF ClozeMatchAt(s, i)
       THEN LET e == DigitsEnd(s, i + 3)
            IN OrdOf(ParseInt(SubSeq(s, i + 3, e))) \cup ClozeOrdsFrom(s, e + 3)
       ELSE ClozeOrdsFrom(s, i + 1)

ClozeOrds(text) == ClozeOrdsFrom(text, 1)

\* Array.from(ords).sort((a, b) => a - b)
RECURSIVE SortOrds(_)
SortOrds(S) ==
  IF S = {} THEN <<>>
  ELSE LET m == CHOOSE x \in S : \A y \in S : x <= y
       IN <<m>> \o SortOrds(S \ {m})

\* note.uid || `${note.deck}::cloze::${note.text}::${note.hint}`
ClozeUid(note) ==
  IF note.uid # NoStr THEN note.uid
  ELSE note.deck \o SEP \o <<"cloze">> \o SEP \o note.text \o SEP \o note.hint

ClozeNoteRow(note, noteId, mid, k) ==
  [id |-> noteId, guid |-> GenerateGuidFromUid(ClozeUid(note)), mid |-> mid,
   tags |-> JoinTags(note),
   flds |-> note.text \o US \o note.hint \o US \o note.back,
   sfld |-> note.text, csum |-> GenerateChecksum(note.text),
   flags |-> 0, data |-> NoStr, src |-> k]

\* Variant: the note is written even when no marker was found.
ClozeWrittenAlways(note) == TRUE

\* Whether the cloze branch writes the note at all (ords.size === 0 returns).
ClozeWritten(note) == ClozeOrds(note.text) # {}

RECURSIVE InsertCloze(_, _, _, _, _)
InsertCloze(g, cards, decks, k, acc) ==
  IF k > Len(cards) THEN acc
  ELSE IF ~ClozeWritten(cards[k]) THEN InsertCloze(g, cards, decks, k + 1, acc)
  ELSE LET note == cards[k]
           ords == SortOrds(ClozeOrds(note.text))
           noteId == acc.nextNoteId
           deckId == DeckLookup(decks, note.deck)
           newCards == [j \in 1..Len(ords) |->
                          NewCardRow(acc.nextCardId + j - 1, noteId, deckId, ords[j])]
       IN InsertCloze(g, cards, decks, k + 1,
            [notes |-> Append(acc.notes, ClozeNoteRow(note, noteId, g.noteTypeId, k)),
             cards |-> acc.cards \o newCards,
             nextNoteId |-> noteId + 1,
             nextCardId |-> acc.nextCardId + Len(ords)])

InsertNotesAndCards(g, cards, decks) ==
  IF g.mode = "cloze"
  THEN InsertCloze(g, cards, decks, 1,
         [notes |-> <<>>, cards |-> <<>>,
          nextNoteId |-> g.nextNoteId, nextCardId |-> g.nextCardId])
  ELSE InsertGlossary(g, cards, decks)

\* ---- createSQLiteDatabase -----------------------------------------------
\* The database returned and the generator's fields after the call.
\* The database is built statement by statement; log lists the statements run.
NoRow == <<>>

\* new SQL.Database() and createSchema: four empty tables.
CreateSchema ==
  [db |-> [col |-> NoRow, notes |-> <<>>, cards |-> <<>>, revlog |-> <<>>],
   log |-> <<"CREATE TABLE">>]

\* INSERT INTO col: the row with id 1, its models and decks blobs being '{}'.
InsertCollection(st) ==
  [db |-> [st.db EXCEPT !.col = [models |-> {}, decks |-> <<>>]],
   log |-> Append(st.log, "INSERT INTO col")]

\* UPDATE col SET models = ... WHERE id = 1
InsertNoteType(st, noteTypeId) ==
  [db |-> IF st.db.col = NoRow THEN st.db
          ELSE [st.db EXCEPT !.col.models = {noteTypeId}],
   log |-> Append(st.log, "UPDATE col SET models")]

\* UPDATE col SET decks = ... WHERE id = 1
UpdateDecks(st, decks) ==
  [db |-> IF st.db.col = NoRow THEN st.db
          ELSE [st.db EXCEPT !.col.decks = InsertDecks(decks)],
   log |-> Append(st.log, "UPDATE col SET decks")]

\* INSERT INTO notes and INSERT INTO cards, for every note and card.
InsertRows(st, ins) ==
  [db |-> [st.db EXCEPT !.notes = ins.notes, !.cards = ins.cards],
   log |-> Append(st.log, "INSERT INTO notes, cards")]

\* Variant: the collection row is inserted after the blobs and the rows.
StatementsCollectionLast(noteTypeId, decks, ins) ==
  InsertCollection(
    InsertRows(UpdateDecks(InsertNoteType(CreateSchema, noteTypeId), decks), ins))

\* The statements of createSQLiteDatabase, in the order of the calls.
Statements(noteTypeId, decks, ins) ==
  InsertRows(
    UpdateDecks(InsertNoteType(InsertCollection(CreateSchema), noteTypeId), decks), ins)

CreateSQLiteDatabase(g, cards) ==
  LET ds == CreateDeckStructure(cards, g.nextDeckId)
      ins == InsertNotesAndCards(g, cards, ds.decks)
      st == Statements(g.noteTypeId, ds.decks, ins)
  IN [db |-> st.db, log |-> st.log,
      decks |-> ds.decks,
      gen |-> [g EXCEPT !.nextDeckId = ds.nextDeckId,
                        !.nextNoteId = ins.nextNoteId,
                        !.nextCardId = ins.nextCardId]]

(***************************************************************************)
(* generate-decks.js: readGlossaryTSV, generateCards, findTSVFiles, main   *)
(***************************************************************************)
TAB == <<"TAB">>
NL == <<"NL">>
Whitespace == {" ", "TAB", "NL", "CR"}

\* String.prototype.trim
RECURSIVE Trim(_)
Trim(s) ==
  IF Len(s) = 0 THEN s
  ELSE IF s[1] \in Whitespace THEN Trim(Tail(s))
  ELSE IF s[Len(s)] \in Whitespace THEN Trim(SubSeq(s, 1, Len(s) - 1))
  ELSE s

\* Array.prototype.filter
RECURSIVE NonBlank(_)
NonBlank(ls) ==
  IF Len(ls) = 0 THEN <<>>
  ELSE IF Trim(ls[1]) # NoStr THEN <<ls[1]>> \o NonBlank(Tail(ls))
  ELSE NonBlank(Tail(ls))

NoHeader == [present |-> FALSE, term1Label |-> NoStr, term2Label |-> NoStr]

ParseHeader(line) ==
  LET headerParts == Split(line, TAB)
  IN IF Len(headerParts) = 2
     THEN [present |-> TRUE, term1Label |-> Trim(headerParts[1]),
           term2Label |-> Trim(headerParts[2])]
     ELSE NoHeader

\* Variant: a row with an empty second term is kept.
ParseDataLineKeepsEmptyTerm2(line) ==
  LET parts == Split(line, TAB)
  IN IF Len(parts) # 2 THEN <<>>
     ELSE IF Trim(parts[1]) = NoStr THEN <<>>
     ELSE <<[term1 |-> Trim(parts[1]), term2 |-> Trim(parts[2])]>>

\* One iteration of the data-line loop: the entries it pushes (none or one).
ParseDataLine(line) ==
  LET parts == Split(line, TAB)
  IN IF Len(parts) # 2 THEN <<>>
     ELSE IF Trim(parts[1]) = NoStr THEN <<>>
     ELSE IF Trim(parts[2]) = NoStr THEN <<>>
     ELSE <<[term1 |-> Trim(parts[1]), term2 |-> Trim(parts[2])]>>

RECURSIVE ParseDataLines(_)
ParseDataLines(ls) ==
  IF Len(ls) = 0 THEN <<>> ELSE ParseDataLine(ls[1]) \o ParseDataLines(Tail(ls))

\* readGlossaryTSV on the content of an existing file.
ReadGlossaryTSV(content) ==
  LET lines == NonBlank(Split(content, NL))
  IN IF Len(lines) = 0 THEN [entries |-> <<>>, header |-> NoHeader]
     ELSE [entries |-> ParseDataLines(Tail(lines)), header |-> ParseHeader(lines[1])]

ARROW == <<" ", "->", " ">>

\* deckPath.replace(/\//g, '-')
ReplaceSlashes(s) == [i \in DOMAIN s |-> IF s[i] = "/" THEN "-" ELSE s[i]]

BaseDeck(deckPath) ==
  IF deckPath = Str(".") \/ deckPath = Str("Root") THEN Str("Vocabulary") ELSE deckPath

RecognitionLabel(header, includeDirectionLabels) ==
  IF includeDirectionLabels /\ header.present
  THEN header.term1Label \o ARROW \o header.term2Label ELSE NoStr

ProductionLabel(header, includeDirectionLabels) ==
  IF includeDirectionLabels /\ header.present
  THEN header.term2Label \o ARROW \o header.term1Label ELSE NoStr

RecognitionCard(entry, deckPath, header, includeDirectionLabels) ==
  [type |-> Str("recognition"),
   deck |-> BaseDeck(deckPath) \o SEP \o Str("Recognition"),
   front |-> entry.term1, back |-> entry.term2,
   tags |-> <<Str("vocabulary"), ReplaceSlashes(deckPath), Str("recognition")>>,
   directionLabel |-> RecognitionLabel(header, includeDirectionLabels),
   uid |-> NoStr]

\* Variant: the production card keeps the recognition card's front and back.
ProductionCardUnswapped(entry, deckPath, header, includeDirectionLabels) ==
  [type |-> Str("production"),
   deck |-> BaseDeck(deckPath) \o SEP \o Str("Production"),
   front |-> entry.term1, back |-> entry.term2,
   tags |-> <<Str("vocabulary"), ReplaceSlashes(deckPath), Str("production")>>,
   directionLabel |-> ProductionLabel(header, includeDirectionLabels),
   uid |-> NoStr]

ProductionCard(entry, deckPath, header, includeDirectionLabels) ==
  [type |-> Str("production"),
   deck |-> BaseDeck(deckPath) \o SEP \o Str("Production"),
   front |-> entry.term2, back |-> entry.term1,
   tags |-> <<Str("vocabulary"), ReplaceSlashes(deckPath), Str("production")>>,
   directionLabel |-> ProductionLabel(header, includeDirectionLabels),
   uid |-> NoStr]

\* The two cards pushed for one entry.
CardsOfEntry(entry, deckPath, header, includeDirectionLabels) ==
  <<RecognitionCard(entry, deckPath, header, includeDirectionLabels),
    ProductionCard(entry, deckPath, header, includeDirectionLabels)>>

RECURSIVE GenerateCards(_, _, _, _, _)
GenerateCards(entries, deckPath, depth, header, includeDirectionLabels) ==
  IF Len(entries) = 0 THEN <<>>
  ELSE CardsOfEntry(entries[1], deckPath, header, includeDirectionLabels)
         \o GenerateCards(Tail(entries), deckPath, depth, header, includeDirectionLabels)

\* ---- the data/ tree --------------------------------------------------------
\* A file of the tree: the folders from data/ down to it, its name and its
\* content.  The order of the files in the sequence fixes the order in which
\* readdirSync lists the items of each directory.
FileName(f) == f.base \o Str(".") \o f.ext

IsUnder(f, dir) == Len(f.dir) >= Len(dir) /\ SubSeq(f.dir, 1, Len(dir)) = dir

\* The item of directory dir through which file f is reached.
ItemOf(f, dir) ==
  IF f.dir = dir THEN [isDir |-> FALSE, name |-> FileName(f)]
  ELSE [isDir |-> TRUE, name |-> f.dir[Len(dir) + 1]]

\* fs.readdirSync(dir)
RECURSIVE ReadDirFrom(_, _, _, _)
ReadDirFrom(files, dir, k, acc) ==
  IF k > Len(files) THEN acc
  ELSE IF IsUnder(files[k], dir)
            /\ ~\E i \in DOMAIN acc : acc[i] = ItemOf(files[k], dir)
       THEN ReadDirFrom(files, dir, k + 1, Append(acc, ItemOf(files[k], dir)))
       ELSE ReadDirFrom(files, dir, k + 1, acc)

ReadDir(files, dir) == ReadDirFrom(files, dir, 1, <<>>)

\* path.join(a, b) for a possibly empty a.
PathJoin(a, b) == IF a = NoStr THEN b ELSE a \o SLASH \o b

\* path.dirname of a relative path.
DirName(rel) ==
  LET parts == Split(rel, SLASH)
  IN IF Len(parts) = 1 THEN Str(".") ELSE Join(SubSeq(parts, 1, Len(parts) - 1), SLASH)

EndsWith(s, suffix) ==
  Len(s) >= Len(suffix) /\ SubSeq(s, Len(s) - Len(suffix) + 1, Len(s)) = suffix

\* path.extname: from the last '.' on, unless the name has none or starts with it.
ExtName(name) ==
  LET dots == {i \in DOMAIN name : name[i] = "."}
      last == CHOOSE i \in dots : \A j \in dots : j <= i
  IN IF dots = {} \/ last = 1 THEN NoStr ELSE SubSeq(name, last, Len(name))

\* path.basename(name, ext)
BaseName(name, ext) ==
  IF ext # NoStr /\ ext # name /\ EndsWith(name, ext)
  THEN SubSeq(name, 1, Len(name) - Len(ext)) ELSE name

IsGlossaryFile(name) ==
  EndsWith(name, <<".", "tsv">>) \/ EndsWith(name, <<".", "txt">>)

DataDir == Str("data")

RECURSIVE FindTSVFiles(_, _, _, _)
RECURSIVE ScanItems(_, _, _, _, _, _)

\* The for loop of findTSVFiles over the items of dir, from the k-th item on.
ScanItems(files, dir, basePath, targetFolder, items, k) ==
  IF k > Len(items) THEN <<>>
  ELSE LET item == items[k]
           found ==
             IF item.isDir
             THEN FindTSVFiles(files, Append(dir, item.name),
                               PathJoin(basePath, item.name), targetFolder)
             ELSE IF IsGlossaryFile(item.name)
             THEN <<[filePath |-> Join(<<DataDir>> \o dir \o <<item.name>>, SLASH),
                     deckPath |-> DirName(PathJoin(basePath, item.name)),
                     fileName |-> BaseName(item.name, ExtName(item.name))]>>
             ELSE <<>>
       IN found \o ScanItems(files, dir, basePath, targetFolder, items, k + 1)

\* findTSVFiles(dir, basePath, targetFolder); dir is given by its folders below
\* data/, which always exists.
FindTSVFiles(files, dir, basePath, targetFolder) ==
  LET items == ReadDir(files, dir)
  IN IF targetFolder # NoStr /\ basePath = NoStr
     THEN IF \E i \in DOMAIN items : items[i].name = targetFolder /\ items[i].isDir
          THEN FindTSVFiles(files, Append(dir, targetFolder), targetFolder, targetFolder)
          ELSE <<>>
     ELSE ScanItems(files, dir, basePath, targetFolder, items, 1)

\* fs.readFileSync(filePath)
ContentOf(files, filePath) ==
  LET k == CHOOSE k \in DOMAIN files :
             Join(<<DataDir>> \o files[k].dir \o <<FileName(files[k])>>, SLASH) = filePath
  IN files[k].content

\* main: the deck name handed to generateCards for a file.
DeckName(file) ==
  IF file.deckPath = Str(".") \/ file.deckPath = Str("Root") THEN file.fileName
  ELSE Split(file.deckPath, SLASH)[1] \o SEP \o file.fileName

\* main: the name of the package written.
OutputFilename(targetFolder, files) ==
  IF targetFolder # NoStr THEN targetFolder \o <<".", "apkg">>
  ELSE Split(files[1].deckPath, SLASH)[1] \o <<".", "apkg">>

(***************************************************************************)
(* Inputs handed to the generator                                          *)
(***************************************************************************)
GCard(type, deck, front, back, uid, tags, label) ==
  [type |-> Str(type), deck |-> deck, front |-> front, back |-> back,
   uid |-> uid, tags |-> tags, directionLabel |-> label]

CNote(deck, text, hint, uid) ==
  [type |-> Str("cloze"), deck |-> deck, text |-> text, hint |-> hint,
   back |-> NoStr, uid |-> uid, tags |-> <<Str("cloze"), Str("T")>>]

TagsRec == <<Str("vocabulary"), Str("A"), Str("recognition")>>
TagsProd == <<Str("vocabulary"), Str("A"), Str("production")>>

GlossaryUniverse ==
  {GCard("recognition", Path(<<"A", "Recognition">>), Str("x"), Str("y"), NoStr, TagsRec, NoStr),
   GCard("production", Path(<<"A", "Production">>), Str("y"), Str("x"), NoStr, TagsProd, NoStr),
   GCard("recognition", Path(<<"A", "Recognition">>), <<"x", ":", ":", "y">>, Str("z"), NoStr, TagsRec, Undefined),
   GCard("recognition", Path(<<"A", "Recognition">>), Str("x"), <<"y", ":", ":", "z">>, NoStr, TagsRec, Undefined),
   GCard("recognition", Path(<<"A", "B", "Recognition">>), Str("x"), Str("y"), Str("u"), TagsRec, Undefined),
   GCard("production", Path(<<"B">>), Str("y"), Str("x"), Str("u"), Undefined, Undefined)}

Marker(ds) == <<"{", "{", "c">> \o ds \o SEP

ClozeUniverse ==
  {CNote(Path(<<"A", "B">>),
         Str("x") \o Marker(<<"1">>) \o <<"y", "}", "}">> \o Marker(<<"2">>) \o <<"z", "}", "}">>,
         Str("h"), NoStr),
   CNote(Path(<<"A">>),
         Marker(<<"2">>) \o <<"y", "}", "}">> \o Marker(<<"1">>) \o <<"x", "}", "}">>
           \o Marker(<<"2">>) \o <<"z", "}", "}">>,
         Str("h"), Str("u")),
   CNote(Path(<<"B", "C">>), Str("x"), Str("h"), NoStr),
   CNote(Path(<<"A">>), Marker(<<"0">>) \o <<"x", "}", "}", "{", "c", "1", ":", ":", "y">>, NoStr, NoStr),
   CNote(Path(<<"A">>), Marker(<<"1", "2">>) \o <<"x", "}", "}">>, <<":", ":", "h">>, NoStr),
   CNote(Path(<<"A">>), Marker(<<"1", "2">>) \o <<"x", "}", "}", ":", ":">>, Str("h"), NoStr)}

Universe(mode) == IF mode = "cloze" THEN ClozeUniverse ELSE GlossaryUniverse

Inputs(mode) == SeqsUpTo(Universe(mode), MaxCards)

Modes == {"glossary", "cloze"}

(***************************************************************************)
(* Specification of the generator: instances are constructed and           *)
(* createSQLiteDatabase is called on the current instance.                 *)
(***************************************************************************)
Idle == <<>>

CardsIdle == gcIn = Idle /\ gcOut = Idle

TsvIdle == tsvIn = Idle /\ tsvOut = Idle

ProgIdle == disk = Idle /\ prog = Idle /\ hist = Idle

\* No file at a path.
Missing == [missing |-> TRUE]

ApkgIdle == apkgFile = Missing /\ apkgCall = Idle

(***************************************************************************)
(* generateApkg: database, archive, file                                   *)
(***************************************************************************)
\* What can go wrong outside the generator's own code: sql.js fails to
\* initialise, JSZip rejects, writeFileSync throws without having opened the
\* file (the directory is missing, the path is not writable) or throws after
\* having truncated it (the disk is full).
ApkgFaults == {"none", "database", "zip", "writeRefused", "writeCut"}

NoError == "none"

\* A file that was here before the call, and a file cut short.
OldArchive == [old |-> TRUE]
Truncated == [truncated |-> TRUE]

\* card.deck.split('::') of a card that has no deck throws a TypeError.
HasDecklessCard(cards) == \E k \in DOMAIN cards : cards[k].deck = Undefined

\* zip.file('collection.anki2', db.export()); zip.file('media', '{}')
Zip(db) == [collection |-> db, media |-> <<"{", "}">>]

\* Variant: a file that exists is not written over.
WriteFileSyncKeepsExisting(old, data) == IF old = Missing THEN data ELSE old

\* fs.writeFileSync(outputPath, zipData) returning normally.
WriteFileSync(old, data) == data

\* generateApkg once createSQLiteDatabase has returned r: the archive is made
\* and written to the output path.
ZipAndWrite(r, file, fault) ==
  IF fault = "zip"
  THEN [gen |-> r.gen, file |-> file, threw |-> "zip", built |-> r]
  ELSE IF fault = "writeRefused"
  THEN [gen |-> r.gen, file |-> file, threw |-> "writeRefused", built |-> r]
  ELSE IF fault = "writeCut"
  THEN [gen |-> r.gen, file |-> Truncated, threw |-> "writeCut", built |-> r]
  ELSE [gen |-> r.gen, file |-> WriteFileSync(file, Zip(r.db)),
        threw |-> NoError, built |-> r]

\* generateApkg(cards, outputPath) on generator g, file being what is stored at
\* outputPath: the generator's fields and the file after the call, the error
\* thrown (NoError when it returns) and the database built, if any.
GenerateApkg(g, cards, file, fault) ==
  IF fault = "database"
  THEN [gen |-> g, file |-> file, threw |-> "database", built |-> Idle]
  ELSE IF HasDecklessCard(cards)
  THEN [gen |-> g, file |-> file, threw |-> "TypeError", built |-> Idle]
  ELSE CHOOSE out \in {ZipAndWrite(r, file, fault) :
                         r \in {CreateSQLiteDatabase(g, cards)}} : TRUE

\* The record kept of a createSQLiteDatabase call that returned.
RunOf(g, cards, r) ==
  [mode |-> g.mode, pre |-> g, input |-> cards, decks |-> r.decks, db |-> r.db,
   log |-> r.log]

MainIdle ==
  /\ env = Idle /\ pc = "off" /\ tsvFiles = <<>> /\ fileIdx = 0
  /\ allCards = <<>> /\ deckOf = <<>> /\ output = Idle

InitGen ==
  /\ gen \in {Constructor(m) : m \in Modes}
  /\ runs = <<>>
  /\ CardsIdle
  /\ MainIdle
  /\ TsvIdle /\ ProgIdle /\ ApkgIdle

\* new AnkiGenerator({ mode })
NewGenerator ==
  /\ Len(runs) < MaxRuns
  /\ gen' = Constructor(gen.mode)
  /\ UNCHANGED runs
  /\ UNCHANGED <<cardVars, mainVars, tsvVars, progVars, apkgVars>>

\* generator.createSQLiteDatabase(cards); the call and its result are recorded.
CallCreateSQLiteDatabase(cards) ==
  /\ Len(runs) < MaxRuns
  /\ LET r == CreateSQLiteDatabase(gen, cards)
     IN /\ gen' = r.gen
        /\ runs' = Append(runs, RunOf(gen, cards, r))
  /\ UNCHANGED <<cardVars, mainVars, tsvVars, progVars, apkgVars>>

NextGen ==
  \/ NewGenerator
  \/ \E cards \in Inputs(gen.mode) : CallCreateSQLiteDatabase(cards)

SpecGen == InitGen /\ [][NextGen]_vars

(***************************************************************************)
(* Properties of the generator (checked under SpecGen)                     *)
(***************************************************************************)
NoteAt(a, i) == runs[a].db.notes[i]
CardAt(a, i) == runs[a].db.cards[i]
SourceOf(a, i) == runs[a].input[NoteAt(a, i).src]

\* The uid a glossary note carries in its first field; cloze notes do not
\* store the uid.
UidField(a, i) ==
  IF runs[a].mode = "glossary" THEN Split(NoteAt(a, i).flds, US)[1] ELSE NoStr

Content(c) == IF c.type = Str("cloze") THEN <<c.text, c.hint>> ELSE <<c.front, c.back>>

\* C1: the uid and the guid written for a row depend only on the row itself:
\* whenever the same row is written by two calls (other rows, positions and
\* the generator's counters being arbitrary) it gets the same uid and guid,
\* and notes with the same uid get the same guid.
C1_RowIdentityIndependent ==
  \A a, b \in DOMAIN runs :
    \A i \in DOMAIN runs[a].db.notes, j \in DOMAIN runs[b].db.notes :
      /\ (runs[a].mode = runs[b].mode /\ SourceOf(a, i) = SourceOf(b, j))
           => /\ UidField(a, i) = UidField(b, j)
              /\ NoteAt(a, i).guid = NoteAt(b, j).guid
      /\ (runs[a].mode = "glossary" /\ runs[b].mode = "glossary"
            /\ UidField(a, i) = UidField(b, j))
           => NoteAt(a, i).guid = NoteAt(b, j).guid

C1_Witness ==
  \E a, b \in DOMAIN runs :
    \E i \in DOMAIN runs[a].db.notes, j \in DOMAIN runs[b].db.notes :
      /\ a # b
      /\ runs[a].input # runs[b].input
      /\ runs[a].pre.nextNoteId # runs[b].pre.nextNoteId
      /\ SourceOf(a, i) = SourceOf(b, j)
      /\ NoteAt(a, i).src # NoteAt(b, j).src
      /\ NoteAt(a, i).id # NoteAt(b, j).id

\* C2: without a supplied uid, two rows of the same deck and kind whose
\* content fields are not both equal are written with different uids (and
\* therefore different guids).
C2_ContentChangesUid ==
  \A a, b \in DOMAIN runs :
    \A i \in DOMAIN runs[a].db.notes, j \in DOMAIN runs[b].db.notes :
      (/\ runs[a].mode = runs[b].mode
       /\ SourceOf(a, i).uid = NoStr /\ SourceOf(b, j).uid = NoStr
       /\ SourceOf(a, i).deck = SourceOf(b, j).deck
       /\ SourceOf(a, i).type = SourceOf(b, j).type
       /\ Content(SourceOf(a, i)) # Content(SourceOf(b, j)))
        => /\ NoteAt(a, i).guid # NoteAt(b, j).guid
           /\ runs[a].mode = "glossary" => UidField(a, i) # UidField(b, j)

\* C3: in every generated database no two note rows carry the same guid.
C3_GuidUnique ==
  \A a \in DOMAIN runs :
    \A i, j \in DOMAIN runs[a].db.notes :
      i # j => NoteAt(a, i).guid # NoteAt(a, j).guid

Segments(d) == Split(d, SEP)

\* p is d cut after one of its '::'-separated segments.
IsPathPrefix(p, d) ==
  /\ Len(Segments(p)) <= Len(Segments(d))
  /\ SubSeq(Segments(d), 1, Len(Segments(p))) = Segments(p)

BlobDecks(a) == {runs[a].db.col.decks[id] : id \in DOMAIN runs[a].db.col.decks}

\* Deck-paths of the cards written to the cards table (through their note).
WrittenPaths(a) == {SourceOf(a, i).deck : i \in DOMAIN runs[a].db.notes}

\* Deck-paths of all cards/notes handed to the call.
InputPaths(a) == {runs[a].input[k].deck : k \in DOMAIN runs[a].input}

DecksAreExactlyPrefixesOf(a, paths) ==
  /\ DefaultDeckId \in DOMAIN runs[a].db.col.decks
  /\ runs[a].db.col.decks[DefaultDeckId] = DefaultDeck
  /\ \A id \in DOMAIN runs[a].db.col.decks : runs[a].db.col.decks[id].id = id
  /\ \A d \in paths : \A n \in 1..Len(Segments(d)) :
       \E e \in BlobDecks(a) :
         e.id # DefaultDeckId /\ e.name = Join(SubSeq(Segments(d), 1, n), SEP)
  /\ \A e \in BlobDecks(a) :
       e.id # DefaultDeckId => \E d \in paths : IsPathPrefix(e.name, d)
  /\ \A e, f \in BlobDecks(a) :
       (e.id # DefaultDeckId /\ f.id # DefaultDeckId /\ e.name = f.name) => e = f

\* C5 as stated: the decks blob holds exactly the prefixes of the deck-paths
\* of the cards written to the cards table, plus the Default deck with id 1.
C5_DecksOfWrittenCards ==
  \A a \in DOMAIN runs : DecksAreExactlyPrefixesOf(a, WrittenPaths(a))

\* C5 amended: the decks blob holds exactly the prefixes of the deck-paths of
\* all cards/notes of the input list (cloze notes that are dropped for want
\* of a marker included), plus the Default deck with id 1.
C5_DecksOfInputCards ==
  \A a \in DOMAIN runs : DecksAreExactlyPrefixesOf(a, InputPaths(a))

C5_Witness ==
  \E a \in DOMAIN runs :
    /\ runs[a].mode = "cloze"
    /\ \E k \in DOMAIN runs[a].input :
         /\ \A i \in DOMAIN runs[a].db.notes : NoteAt(a, i).src # k
         /\ Len(Segments(runs[a].input[k].deck)) = 2
         /\ runs[a].input[k].deck \notin WrittenPaths(a)
    /\ runs[a].db.notes # <<>>
    /\ Cardinality(BlobDecks(a)) >= 4

ParentName(n) == Join(SubSeq(Segments(n), 1, Len(Segments(n)) - 1), SEP)

ComesBefore(x, y) ==
  \/ Len(Segments(x)) < Len(Segments(y))
  \/ Len(Segments(x)) = Len(Segments(y)) /\ LocaleCompare(x, y) < 0

\* C6: createDeckStructure numbers the decks consecutively, in ascending
\* order of (depth, name), from the generator's next deck id (deckId + 1 on a
\* new generator); ids are pairwise distinct, none is the reserved id 1 and
\* every deck's id is greater than its parent's.
C6_DeckIdsAscending ==
  \A a \in DOMAIN runs :
    LET val == runs[a].decks.val
        names == DOMAIN val
    IN /\ \A x, y \in names : x # y => val[x].id # val[y].id
       /\ \A x \in names : val[x].id # DefaultDeckId /\ val[x].name = x
       /\ \A x \in names :
            Len(Segments(x)) > 1 =>
              /\ ParentName(x) \in names
              /\ BigLess(val[ParentName(x)].id, val[x].id)
       /\ \A x, y \in names : ComesBefore(x, y) => BigLess(val[x].id, val[y].id)
       /\ {val[x].id : x \in names}
            = {BigAdd(runs[a].pre.nextDeckId, k) : k \in 0..(Cardinality(names) - 1)}
       /\ runs[a].pre = Constructor(runs[a].mode)
            => runs[a].pre.nextDeckId = <<2, 993831108>>

C6_Witness ==
  \E a \in DOMAIN runs :
    LET names == DOMAIN runs[a].decks.val
    IN /\ \E x, y, z \in names :
            /\ Len(Segments(x)) = 1 /\ Len(Segments(y)) = 2 /\ Len(Segments(z)) = 3
            /\ ParentName(z) = y /\ ParentName(y) = x
       /\ \E x, y \in names :
            x # y /\ Len(Segments(x)) = 2 /\ Len(Segments(y)) = 2
       /\ \E x, y \in names :
            Len(Segments(x)) < Len(Segments(y)) /\ LocaleCompare(x, y) > 0

\* C7: two calls with the same card list in the same order give identical
\* uids, identical deck-path to deck-id assignments and identical note and
\* card counts, on a new generator or on the same instance.
C7_Idempotent ==
  \A a, b \in DOMAIN runs :
    (runs[a].mode = runs[b].mode /\ runs[a].input = runs[b].input)
      => /\ Len(runs[a].db.notes) = Len(runs[b].db.notes)
         /\ Len(runs[a].db.cards) = Len(runs[b].db.cards)
         /\ \A i \in DOMAIN runs[a].db.notes :
              /\ UidField(a, i) = UidField(b, i)
              /\ NoteAt(a, i).guid = NoteAt(b, i).guid
         /\ runs[a].decks.val = runs[b].decks.val

\* The indices N >= 1 for which the text contains '{{c', the decimal digits
\* of N and '::'.
MarkerIndices(s) ==
  {ParseInt(SubSeq(s, i + 3, e)) :
     <<i, e>> \in {p \in (1..Len(s)) \X (1..Len(s)) :
                     /\ p[2] >= p[1] + 3
                     /\ StartsAt(s, p[1], <<"{", "{", "c">>)
                     /\ \A k \in (p[1] + 3)..p[2] : s[k] \in Digits
                     /\ StartsAt(s, p[2] + 1, SEP)}} \ {0}

NoteRowsOf(a, k) == {i \in DOMAIN runs[a].db.notes : NoteAt(a, i).src = k}
CardRowsOf(a, i) == {j \in DOMAIN runs[a].db.cards : CardAt(a, j).nid = NoteAt(a, i).id}

\* C8: in cloze mode a note whose text has at least one marker '{{cN::' with
\* N >= 1 is written as one note row and one card row per distinct index N,
\* in ascending index order, each with ord N - 1 and referencing the note.
C8_OneCardPerClozeIndex ==
  \A a \in DOMAIN runs :
    runs[a].mode = "cloze" =>
      \A k \in DOMAIN runs[a].input :
        LET idx == MarkerIndices(runs[a].input[k].text)
        IN idx # {} =>
             /\ Cardinality(NoteRowsOf(a, k)) = 1
             /\ \A i \in NoteRowsOf(a, k) :
                  /\ Cardinality(CardRowsOf(a, i)) = Cardinality(idx)
                  /\ {CardAt(a, j).ord : j \in CardRowsOf(a, i)} = {n - 1 : n \in idx}
                  /\ \A j1, j2 \in CardRowsOf(a, i) :
                       j1 < j2 => /\ CardAt(a, j1).ord < CardAt(a, j2).ord
                                  /\ CardAt(a, j1).id < CardAt(a, j2).id

C8_Witness ==
  \E a \in DOMAIN runs :
    /\ runs[a].mode = "cloze"
    /\ \E k \in DOMAIN runs[a].input :
         LET s == runs[a].input[k].text
         IN /\ MarkerIndices(s) = {1, 2}
            /\ StartsAt(s, 1, Marker(<<"2">>))
            /\ Len(s) > 20
            /\ \E i \in NoteRowsOf(a, k) : Cardinality(CardRowsOf(a, i)) = 2
    /\ \E k \in DOMAIN runs[a].input : MarkerIndices(runs[a].input[k].text) = {12}

\* C9: a cloze note without a recognised marker writes neither a note row
\* nor a card row, and in both modes every note row has at least one card
\* row that references it.
C9_NoOrphanNote ==
  \A a \in DOMAIN runs :
    /\ runs[a].mode = "cloze" =>
         \A k \in DOMAIN runs[a].input :
           MarkerIndices(runs[a].input[k].text) = {} => NoteRowsOf(a, k) = {}
    /\ \A j \in DOMAIN runs[a].db.cards :
         \E i \in DOMAIN runs[a].db.notes : CardAt(a, j).nid = NoteAt(a, i).id
    /\ \A i \in DOMAIN runs[a].db.notes : CardRowsOf(a, i) # {}

C9_Witness ==
  \E a \in DOMAIN runs :
    /\ runs[a].mode = "cloze"
    /\ \E k \in DOMAIN runs[a].input :
         /\ MarkerIndices(runs[a].input[k].text) = {}
         /\ StartsAt(runs[a].input[k].text, 1, Marker(<<"0">>))
    /\ runs[a].db.notes # <<>>

(***************************************************************************)
(* Specification of generateCards: the arguments are drawn in the initial  *)
(* state and the function is applied once.                                 *)
(***************************************************************************)
EntryUniverse ==
  {[term1 |-> Str("x"), term2 |-> Str("y")],
   [term1 |-> Str("y"), term2 |-> Str("y")],
   [term1 |-> <<"x", ":", ":", "y">>, term2 |-> <<"z", "/", "x">>]}

DeckPathUniverse ==
  {Str("."), Str("Root"), Str("T"), Path(<<"T", "f">>),
   <<"T", "/", "D", "/", "f">>, <<"T", ":">>}

HeaderUniverse ==
  {NoHeader, [present |-> TRUE, term1Label |-> Str("A"), term2Label |-> Str("B")]}

InitCards ==
  /\ gcIn \in [entries : SeqsUpTo(EntryUniverse, MaxEntries),
               deckPath : DeckPathUniverse,
               header : HeaderUniverse,
               includeDirectionLabels : BOOLEAN]
  /\ gcOut = Idle
  /\ gen = Idle /\ runs = <<>>
  /\ MainIdle
  /\ TsvIdle /\ ProgIdle /\ ApkgIdle

CallGenerateCards ==
  /\ gcOut = Idle
  /\ gcOut' = [cards |-> GenerateCards(gcIn.entries, gcIn.deckPath,
                                       Len(Split(gcIn.deckPath, SEP)),
                                       gcIn.header, gcIn.includeDirectionLabels)]
  /\ UNCHANGED <<gcIn, genVars, mainVars, tsvVars, progVars, apkgVars>>

NextCards == CallGenerateCards

SpecCards == InitCards /\ [][NextCards]_vars

LastSegment(d) == Segments(d)[Len(Segments(d))]
AllButLast(d) == SubSeq(Segments(d), 1, Len(Segments(d)) - 1)

\* C4: generateCards returns 2 * |entries| cards; for the i-th entry the
\* first is the recognition card (front term1, back term2, deck
\* '<base>::Recognition') and the second the production card (front term2,
\* back term1, deck '<base>::Production'), <base> being 'Vocabulary' for the
\* root markers '.' and 'Root' and the deck name otherwise; the two deck-paths
\* differ only in the last segment.
C4_TwoCardsPerEntry ==
  gcOut # Idle =>
    LET cards == gcOut.cards
        base == IF gcIn.deckPath \in {Str("."), Str("Root")}
                THEN Str("Vocabulary") ELSE gcIn.deckPath
    IN /\ Len(cards) = 2 * Len(gcIn.entries)
       /\ \A i \in DOMAIN gcIn.entries :
            LET rec == cards[2 * i - 1]
                prod == cards[2 * i]
                e == gcIn.entries[i]
            IN /\ rec.type = Str("recognition") /\ prod.type = Str("production")
               /\ rec.front = e.term1 /\ rec.back = e.term2
               /\ prod.front = e.term2 /\ prod.back = e.term1
               /\ rec.front = prod.back /\ rec.back = prod.front
               /\ rec.deck = base \o SEP \o Str("Recognition")
               /\ prod.deck = base \o SEP \o Str("Production")
               /\ AllButLast(rec.deck) = AllButLast(prod.deck)
               /\ LastSegment(rec.deck) # LastSegment(prod.deck)

C4_Witness ==
  /\ gcOut # Idle
  /\ Len(gcIn.entries) = 2
  /\ gcIn.entries[1] # gcIn.entries[2]
  /\ gcIn.entries[2].term1 # gcIn.entries[2].term2
  /\ gcIn.deckPath = Str("Root")
  /\ Len(gcOut.cards) = 4

(***************************************************************************)
(* Specification of main (generate-decks.js)                               *)
(***************************************************************************)
File(dir, base, ext, content) ==
  [dir |-> dir, base |-> Str(base), ext |-> Str(ext), content |-> content]

ContentUniverse ==
  {Str("A") \o TAB \o Str("B") \o NL \o Str("x") \o TAB \o Str("y") \o NL,
   Str("x") \o TAB \o Str("y") \o NL \o <<" ", "y", " ">> \o TAB \o Str("z") \o NL
     \o Str("x") \o NL \o TAB \o Str("z")}

\* A file whose first non-empty line is not a two-column header.
HeaderlessContent == Str("x") \o NL \o Str("x") \o TAB \o Str("y") \o NL

PositionUniverse ==
  {<<<<>>, "f", "tsv">>,
   <<<<Str("T")>>, "f", "tsv">>,
   <<<<Str("T"), Str("D")>>, "f", "tsv">>,
   <<<<Str("T")>>, "f", "txt">>,
   <<<<Str("D")>>, "g", "tsv">>,
   <<<<Str("Root")>>, "f", "tsv">>,
   <<<<Str("T")>>, "f", "md">>}

FileUniverse ==
  {File(p[1], p[2], p[3], c) : p \in PositionUniverse, c \in ContentUniverse}
    \cup {File(<<Str("D")>>, "f", "tsv", NL),
          File(<<Str("D")>>, "g", "tsv", HeaderlessContent)}

SamePath(f, g) == f.dir = g.dir /\ f.base = g.base /\ f.ext = g.ext

\* Trees: sequences of files with pairwise different paths.
TreeUniverse ==
  {t \in SeqsUpTo(FileUniverse, MaxFiles) :
     \A i, j \in DOMAIN t : i # j => ~SamePath(t[i], t[j])}

TargetUniverse == {NoStr, Str("T"), Str("C")}

InitMain ==
  /\ env \in [files : TreeUniverse, targetFolder : TargetUniverse,
              includeDirectionLabels : BOOLEAN]
  /\ pc = "start"
  /\ tsvFiles = <<>> /\ fileIdx = 0 /\ allCards = <<>> /\ deckOf = <<>>
  /\ output = Idle
  /\ gen = Idle /\ runs = <<>>
  /\ CardsIdle
  /\ TsvIdle /\ ProgIdle /\ ApkgIdle

\* The entry point, main().catch(console.error): a rejection of main is printed
\* and handled, nothing sets an exit code, and the process ends with status 0
\* whether main returned or threw.
ExitStatus(threw) == 0

\* findTSVFiles and the early return when nothing was found.
MainFind ==
  /\ pc = "start"
  /\ tsvFiles' = FindTSVFiles(env.files, <<>>, NoStr, env.targetFolder)
  /\ IF Len(tsvFiles') = 0
     THEN /\ pc' = "done" /\ fileIdx' = fileIdx
          /\ output' = [debugJson |-> Missing, apkgName |-> NoStr,
                         threw |-> NoError, exitCode |-> ExitStatus(NoError)]
     ELSE pc' = "loop" /\ fileIdx' = 1 /\ output' = output
  /\ UNCHANGED <<env, allCards, deckOf, genVars, cardVars, tsvVars, progVars, apkgVars>>

\* One iteration of the loop over tsvFiles.
MainFile ==
  /\ pc = "loop"
  /\ fileIdx <= Len(tsvFiles)
  /\ LET file == tsvFiles[fileIdx]
         parsed == ReadGlossaryTSV(ContentOf(env.files, file.filePath))
         deckName == DeckName(file)
         cards == GenerateCards(parsed.entries, deckName, Len(Split(deckName, SEP)),
                                parsed.header, env.includeDirectionLabels)
     IN IF Len(parsed.entries) = 0
        THEN UNCHANGED <<allCards, deckOf>>
        ELSE /\ allCards' = allCards \o cards
             /\ deckOf' = Append(deckOf, [filePath |-> file.filePath,
                                          deckName |-> deckName,
                                          baseDeck |-> BaseDeck(deckName),
                                          entries |-> parsed.entries,
                                          cards |-> cards])
  /\ fileIdx' = fileIdx + 1
  /\ UNCHANGED <<env, pc, tsvFiles, output, genVars, cardVars, tsvVars, progVars, apkgVars>>

\* After the loop: the debug JSON, new AnkiGenerator(), generateApkg, the
\* catch that prints and rethrows, and the end of the process.
MainGenerate(fault) ==
  /\ pc = "loop"
  /\ fileIdx > Len(tsvFiles)
  /\ \E g \in {Constructor("glossary")} :
     \E r \in {GenerateApkg(g, allCards, apkgFile, fault)} :
        /\ gen' = r.gen
        /\ runs' = IF r.built = Idle THEN runs
                   ELSE Append(runs, RunOf(g, allCards, r.built))
        /\ apkgFile' = r.file
        /\ apkgCall' = [cards |-> allCards, fault |-> fault, before |-> apkgFile,
                        threw |-> r.threw]
        /\ output' = [debugJson |-> allCards,
                      apkgName |-> OutputFilename(env.targetFolder, tsvFiles),
                      threw |-> r.threw, exitCode |-> ExitStatus(r.threw)]
  /\ pc' = "done"
  /\ UNCHANGED <<env, tsvFiles, fileIdx, allCards, deckOf, cardVars, tsvVars, progVars>>

NextMain == MainFind \/ MainFile \/ \E fault \in ApkgFaults : MainGenerate(fault)

SpecMain == InitMain /\ [][NextMain]_vars

\* C10: any two distinct source files found under data/ are given different
\* base deck-paths by main.
C10_DistinctFilesDistinctDecks ==
  \A i, j \in DOMAIN deckOf :
    deckOf[i].filePath # deckOf[j].filePath => deckOf[i].baseDeck # deckOf[j].baseDeck

\* The file of the tree that main read as filePath.
SourceFile(filePath) ==
  LET k == CHOOSE k \in DOMAIN env.files :
             Join(<<DataDir>> \o env.files[k].dir \o <<FileName(env.files[k])>>, SLASH)
               = filePath
  IN env.files[k]

\* The cards main generated for a file are two per entry, filed under
\* '<group>::Recognition' and '<group>::Production'.
FiledUnder(rec, group) ==
  /\ Len(rec.cards) = 2 * Len(rec.entries)
  /\ \A k \in DOMAIN rec.entries :
       /\ rec.cards[2 * k - 1].deck = group \o SEP \o Str("Recognition")
       /\ rec.cards[2 * k].deck = group \o SEP \o Str("Production")

\* C11: for a source file named F at any depth below top-level folder T, every
\* entry of the file gives exactly two cards, with deck-paths
\* 'T::F::Recognition' and 'T::F::Production'.
C11_FolderFileDeckPaths ==
  \A i \in DOMAIN deckOf :
    LET f == SourceFile(deckOf[i].filePath)
    IN Len(f.dir) > 0 => FiledUnder(deckOf[i], f.dir[1] \o SEP \o f.base)

\* C12: for a source file directly at the top level of the input tree, the
\* cards main generates are filed under 'Vocabulary::Recognition' and
\* 'Vocabulary::Production'.
C12_TopLevelFilesUnderVocabulary ==
  \A i \in DOMAIN deckOf :
    LET f == SourceFile(deckOf[i].filePath)
    IN Len(f.dir) = 0 => FiledUnder(deckOf[i], Str("Vocabulary"))

(***************************************************************************)
(* Specification of readGlossaryTSV calls                                  *)
(***************************************************************************)
MaxLines == 3

\* The lines a source file is made of.
LineUniverse ==
  {Str("A") \o TAB \o Str("B"),
   Str("x") \o TAB \o Str("y"),
   <<" ", "y", " ">> \o TAB \o <<" ", "z", " ">>,
   Str("x"),
   Str("x") \o TAB \o Str("y") \o TAB \o Str("z"),
   TAB \o Str("z"),
   Str("x") \o TAB \o <<" ">>,
   NoStr,
   <<" ">>,
   Str("x") \o TAB \o <<"y", "CR">>}

TsvContentUniverse == {Join(ls, NL) : ls \in SeqsUpTo(LineUniverse, MaxLines)}

\* headerless records how the file was written: TRUE when its author put no
\* header row in it, so that every line of it is a data row.
InitTsv ==
  /\ tsvIn \in [exists : BOOLEAN, content : TsvContentUniverse, headerless : BOOLEAN]
  /\ tsvOut = Idle
  /\ gen = Idle /\ runs = <<>>
  /\ CardsIdle /\ MainIdle /\ ProgIdle /\ ApkgIdle

\* readGlossaryTSV(filePath): a missing file gives no entries and no header.
CallReadGlossaryTSV ==
  /\ tsvOut = Idle
  /\ tsvOut' = IF ~tsvIn.exists THEN [entries |-> <<>>, header |-> NoHeader]
               ELSE ReadGlossaryTSV(tsvIn.content)
  /\ UNCHANGED <<tsvIn, genVars, cardVars, mainVars, progVars, apkgVars>>

NextTsv == CallReadGlossaryTSV

SpecTsv == InitTsv /\ [][NextTsv]_vars

\* ---- the rows of a file, described by positions -----------------------------
IsBlank(s) == \A i \in DOMAIN s : s[i] \in Whitespace

\* s without its leading and trailing white space (s is not blank).
Stripped(s) ==
  LET first == CHOOSE i \in DOMAIN s :
                 s[i] \notin Whitespace /\ \A j \in 1..(i - 1) : s[j] \in Whitespace
      last == CHOOSE i \in DOMAIN s :
                s[i] \notin Whitespace /\ \A j \in (i + 1)..Len(s) : s[j] \in Whitespace
  IN SubSeq(s, first, last)

TabsOf(row) == {i \in DOMAIN row : row[i] = "TAB"}

Column1(row) == SubSeq(row, 1, (CHOOSE i \in TabsOf(row) : TRUE) - 1)
Column2(row) == SubSeq(row, (CHOOSE i \in TabsOf(row) : TRUE) + 1, Len(row))

\* A row with exactly two columns, both non-empty after trimming.
WellFormedRow(row) ==
  /\ Cardinality(TabsOf(row)) = 1
  /\ ~IsBlank(Column1(row))
  /\ ~IsBlank(Column2(row))

IsNonBlankLine(l) == ~IsBlank(l)

\* The data rows of a file: its non-blank lines after the first one.
DataRows(content) ==
  LET lines == SelectSeq(Split(content, NL), IsNonBlankLine)
  IN IF Len(lines) = 0 THEN <<>> ELSE Tail(lines)

\* C20: readGlossaryTSV always returns; the entries it returns are exactly the
\* data rows that have two tab-separated columns with non-empty trimmed term1
\* and term2, in file order, each entry holding the trimmed terms; every other
\* data row is skipped.
C20_MalformedRowsSkipped ==
  (tsvOut # Idle /\ tsvIn.exists) =>
    LET good == SelectSeq(DataRows(tsvIn.content), WellFormedRow)
    IN /\ Len(tsvOut.entries) = Len(good)
       /\ \A k \in DOMAIN good :
            /\ tsvOut.entries[k].term1 = Stripped(Column1(good[k]))
            /\ tsvOut.entries[k].term2 = Stripped(Column2(good[k]))
            /\ tsvOut.entries[k].term1 # NoStr
            /\ tsvOut.entries[k].term2 # NoStr

\* A file whose first data row is malformed and whose second is kept.
C20_Witness ==
  /\ tsvOut # Idle /\ tsvIn.exists
  /\ Len(DataRows(tsvIn.content)) = 2
  /\ ~WellFormedRow(DataRows(tsvIn.content)[1])
  /\ WellFormedRow(DataRows(tsvIn.content)[2])
  /\ Len(tsvOut.entries) = 1

(***************************************************************************)
(* scripts/anki-progress.js: snapshot and restore of the scheduling state  *)
(* of the cards of a live collection                                       *)
(***************************************************************************)
MaxModify == 1

IdentityCols == {"id", "nid", "did", "ord"}
BookkeepingCols == {"mod", "usn"}
SchedCols ==
  {"type", "queue", "due", "ivl", "factor", "reps", "lapses", "left", "odue",
   "odid", "flags", "data"}
CardCols == IdentityCols \cup BookkeepingCols \cup SchedCols

\* The scheduling columns of a row of the cards table (or of a query row).
Sched(c) == [f \in SchedCols |-> c[f]]

\* Math.floor(Date.now() / 1000) at the time of the restore.
NowSec == 1000

\* String(n) for a non-negative integer.
DigitChar(d) ==
  CASE d = 0 -> "0" [] d = 1 -> "1" [] d = 2 -> "2" [] d = 3 -> "3" [] d = 4 -> "4"
    [] d = 5 -> "5" [] d = 6 -> "6" [] d = 7 -> "7" [] d = 8 -> "8" [] d = 9 -> "9"

RECURSIVE NumStr(_)
NumStr(n) == IF n < 10 THEN <<DigitChar(n)>> ELSE NumStr(n \div 10) \o <<DigitChar(n % 10)>>

SplitFields(flds) == Split(flds, US)

\* tagsText.trim().split(/\s+/).filter(Boolean)
RECURSIVE TagTokens(_, _)
TagTokens(s, cur) ==
  IF Len(s) = 0 THEN (IF cur = NoStr THEN {} ELSE {cur})
  ELSE IF s[1] \in Whitespace
       THEN (IF cur = NoStr THEN {} ELSE {cur}) \cup TagTokens(Tail(s), NoStr)
       ELSE TagTokens(Tail(s), Append(cur, s[1]))

HasTag(tagsText, tag) == tag \in TagTokens(tagsText, NoStr)

StartsWith(s, prefix) == StartsAt(s, 1, prefix)

\* The ids of the deck named deckPrefix and of its descendants.
GetDeckIdsByPrefix(decksJson, deckPrefix) ==
  {d.id : d \in {d \in decksJson :
                   d.name = deckPrefix \/ StartsWith(d.name, deckPrefix \o SEP)}}

GetModelIdsByName(modelsJson, modelName) ==
  {m.id : m \in {m \in modelsJson : m.name = modelName}}

\* options.deck ? getDeckIdsByPrefix(...) : null, null being the empty list.
DidsOf(db, options) ==
  IF options.deck # NoStr THEN GetDeckIdsByPrefix(db.decks, options.deck) ELSE {}

MidsOf(db, options) ==
  IF options.noteType # NoStr THEN GetModelIdsByName(db.models, options.noteType) ELSE {}

\* The note a card is joined with (note ids are the primary key of notes).
NoteOf(db, c) == CHOOSE k \in DOMAIN db.notes : db.notes[k].id = c.nid

\* One row of SELECT ... FROM cards c JOIN notes n ON n.id = c.nid.
JoinedRow(db, k) ==
  LET c == db.cards[k]
      n == db.notes[NoteOf(db, c)]
  IN [col \in (CardCols \ {"id", "mod", "usn"}) \cup {"cid", "flds", "ntags", "mid"} |->
        CASE col = "cid" -> c.id
          [] col = "flds" -> n.flds
          [] col = "ntags" -> n.tags
          [] col = "mid" -> n.mid
          [] OTHER -> c[col]]

\* queryCardsWithNotes: a WHERE clause only for a non-empty id list.
RECURSIVE QueryFrom(_, _, _, _)
QueryFrom(db, dids, mids, k) ==
  IF k > Len(db.cards) THEN <<>>
  ELSE LET c == db.cards[k]
           joined == \E j \in DOMAIN db.notes : db.notes[j].id = c.nid
           selected ==
             /\ joined
             /\ (dids # {} => c.did \in dids)
             /\ (mids # {} => db.notes[NoteOf(db, c)].mid \in mids)
       IN (IF selected THEN <<JoinedRow(db, k)>> ELSE <<>>)
            \o QueryFrom(db, dids, mids, k + 1)

QueryCardsWithNotes(db, dids, mids) == QueryFrom(db, dids, mids, 1)

\* fields[uidFieldIndex]
UidOfRow(r, uidFieldIndex) ==
  LET fields == SplitFields(r.flds)
  IN IF uidFieldIndex + 1 <= Len(fields) THEN fields[uidFieldIndex + 1] ELSE Undefined

\* !uid
NoUid(uid) == uid = Undefined \/ uid = NoStr

MakeSnapshotKey(uid, ord) == uid \o SEP \o <<"o", "r", "d", "=">> \o NumStr(ord)

\* What the loops of snapshot and restore do with a row, before the lookup.
RowFilter(r, options) ==
  IF options.tag # NoStr /\ ~HasTag(r.ntags, options.tag) THEN "skippedTagFilter"
  ELSE IF NoUid(UidOfRow(r, options.uidFieldIndex)) THEN "skippedMissingUid"
  ELSE "pass"

KeyOfRow(r, options) == MakeSnapshotKey(UidOfRow(r, options.uidFieldIndex), r.ord)

\* obj[key] = value
Put(obj, key, value) ==
  [k \in DOMAIN obj \cup {key} |-> IF k = key THEN value ELSE obj[k]]

Bump(counts, name) == [counts EXCEPT ![name] = @ + 1]

EmptyObject == [k \in {} |-> 0]

\* ---- snapshot ---------------------------------------------------------------
\* The loop of cmdSnapshot from row k on.
RECURSIVE SnapshotLoop(_, _, _, _)
SnapshotLoop(rows, options, k, snapshot) ==
  IF k > Len(rows) THEN snapshot
  ELSE LET r == rows[k]
           outcome == RowFilter(r, options)
       IN IF outcome # "pass"
          THEN SnapshotLoop(rows, options, k + 1,
                            [snapshot EXCEPT !.counts = Bump(@, outcome)])
          ELSE SnapshotLoop(rows, options, k + 1,
                 [snapshot EXCEPT
                    !.cards = Put(@, KeyOfRow(r, options), Sched(r)),
                    !.counts = Bump(@, "matchedCards")])

\* The snapshot cmdSnapshot writes to options.outPath.
CmdSnapshot(db, options) ==
  LET rows == QueryCardsWithNotes(db, DidsOf(db, options), MidsOf(db, options))
  IN SnapshotLoop(rows, options, 1,
       [meta |-> [deck |-> options.deck, noteType |-> options.noteType,
                  tag |-> options.tag, uidField |-> options.uidFieldIndex],
        cards |-> EmptyObject,
        counts |-> [totalRows |-> Len(rows), matchedCards |-> 0,
                    skippedMissingUid |-> 0, skippedTagFilter |-> 0]])

\* ---- restore ----------------------------------------------------------------
\* Variant: the UPDATE also files the card under the Default deck.
UpdateStmtRunMovesCard(c, snap) ==
  [col \in CardCols |->
     CASE col = "mod" -> NowSec
       [] col = "usn" -> -1
       [] col = "did" -> 1
       [] col \in SchedCols -> snap[col]
       [] OTHER -> c[col]]

\* UPDATE cards SET mod = ?, usn = -1, type = ?, ... WHERE id = ?, on one row.
UpdateStmtRun(c, snap) ==
  [col \in CardCols |->
     CASE col = "mod" -> NowSec
       [] col = "usn" -> -1
       [] col \in SchedCols -> snap[col]
       [] OTHER -> c[col]]

\* The cards table after the UPDATE for card id cid.
UpdateCards(cards, cid, snap) ==
  [i \in DOMAIN cards |-> IF cards[i].id = cid THEN UpdateStmtRun(cards[i], snap)
                          ELSE cards[i]]

\* What the restore loop does with a row.
RowOutcome(r, options, snapshotCards) ==
  IF RowFilter(r, options) # "pass" THEN RowFilter(r, options)
  ELSE IF KeyOfRow(r, options) \notin DOMAIN snapshotCards THEN "missing"
  ELSE "matched"

\* Variant: a card that is absent from the snapshot is not counted.
CountRowDropsMissing(counts, outcome) ==
  LET c1 == Bump(counts, "scanned")
  IN IF outcome \in {"skippedTagFilter", "skippedMissingUid"} THEN Bump(c1, outcome)
     ELSE IF outcome = "missing" THEN Bump(c1, "eligible")
     ELSE Bump(Bump(c1, "eligible"), outcome)

\* The counters after one iteration of the restore loop.
CountRow(counts, outcome) ==
  LET c1 == Bump(counts, "scanned")
  IN IF outcome \in {"skippedTagFilter", "skippedMissingUid"} THEN Bump(c1, outcome)
     ELSE Bump(Bump(c1, "eligible"), outcome)

\* if (options.dryRun) { changes.push(...); continue; }
WritesRows(options) == ~options.dryRun

\* The loop of cmdRestore from row k on.  failAt is the index of the row whose
\* UPDATE throws (0: none does); st holds the in-memory cards table, the
\* counters, the dry-run change list and whether the loop threw.
RECURSIVE RestoreLoop(_, _, _, _, _, _)
RestoreLoop(rows, options, snapshotCards, failAt, k, st) ==
  IF k > Len(rows) THEN st
  ELSE LET r == rows[k]
           outcome == RowOutcome(r, options, snapshotCards)
           counted == [st EXCEPT !.counts = CountRow(@, outcome)]
       IN IF outcome # "matched"
          THEN RestoreLoop(rows, options, snapshotCards, failAt, k + 1, counted)
          ELSE IF ~WritesRows(options)
          THEN RestoreLoop(rows, options, snapshotCards, failAt, k + 1,
                 [counted EXCEPT !.changes =
                    Append(@, [cid |-> r.cid, key |-> KeyOfRow(r, options)])])
          ELSE IF failAt = k
          THEN [counted EXCEPT !.threw = TRUE]
          ELSE RestoreLoop(rows, options, snapshotCards, failAt, k + 1,
                 [counted EXCEPT !.cards =
                    UpdateCards(@, r.cid, snapshotCards[KeyOfRow(r, options)])])

ZeroCounts ==
  [scanned |-> 0, eligible |-> 0, matched |-> 0, missing |-> 0,
   skippedMissingUid |-> 0, skippedTagFilter |-> 0]

\* cmdRestore from the query to the end of the loop, on the in-memory database.
RestoreScanOf(db, options, snapshotCards, failAt) ==
  LET rows == QueryCardsWithNotes(db, DidsOf(db, options), MidsOf(db, options))
  IN RestoreLoop(rows, options, snapshotCards, failAt, 1,
       [cards |-> db.cards, counts |-> ZeroCounts, changes |-> <<>>, threw |-> FALSE])

\* Variant: no backup is ever made.
NeedsBackupNever(options) == FALSE

\* if (!options.noBackup) backupFile(options.collectionPath)
NeedsBackup(options) == ~options.noBackup

\* Variant: a failing command saves what it has done so far.
AbortedSavesPartial(d, db) == [d EXCEPT !.collection = db, !.saved = @ + 1]

\* The disk after a command has thrown: main's catch prints the message and
\* exits; the in-memory database db is dropped.
Aborted(d, db) == d

(***************************************************************************)
(* Specification of anki-progress: one snapshot, changes made to the       *)
(* collection by Anki, one restore                                         *)
(***************************************************************************)
\* A file that is not JSON.
Corrupt == [corrupt |-> TRUE]

SchedNew ==
  [type |-> 0, queue |-> 0, due |-> 1, ivl |-> 0, factor |-> 2500, reps |-> 0,
   lapses |-> 0, left |-> 0, odue |-> 0, odid |-> 0, flags |-> 0, data |-> NoStr]

SchedReview ==
  [type |-> 2, queue |-> 2, due |-> 120, ivl |-> 10, factor |-> 2300, reps |-> 5,
   lapses |-> 1, left |-> 0, odue |-> 0, odid |-> 0, flags |-> 0, data |-> NoStr]

SchedFiltered ==
  [type |-> 2, queue |-> 2, due |-> 5, ivl |-> 3, factor |-> 2100, reps |-> 2,
   lapses |-> 0, left |-> 1001, odue |-> 130, odid |-> 7, flags |-> 1,
   data |-> <<"{", "}">>]

CardRow(id, nid, did, ord, sched) ==
  [col \in CardCols |->
     CASE col = "id" -> id [] col = "nid" -> nid [] col = "did" -> did
       [] col = "ord" -> ord [] col = "mod" -> 500 [] col = "usn" -> 3
       [] OTHER -> sched[col]]

NoteRow(id, mid, flds, tags) == [id |-> id, mid |-> mid, flds |-> flds, tags |-> tags]

LiveDecks ==
  {[id |-> 1, name |-> Str("Default")], [id |-> 20, name |-> Str("A")],
   [id |-> 21, name |-> Path(<<"A", "B">>)], [id |-> 22, name |-> Str("AB")]}

LiveModels == {[id |-> 10, name |-> Str("M")], [id |-> 11, name |-> Str("N")]}

Collection(notes, cards) ==
  [decks |-> LiveDecks, models |-> LiveModels, notes |-> notes, cards |-> cards]

Flds(parts) == Join(parts, US)

\* Live collections: two notes with different uids; two notes with the same
\* uid; a two-card note whose uid is its second field, with a note whose uid
\* fields are empty and a one-field note; one note only; no note at all.
DbUniverse ==
  {Collection(<<NoteRow(1, 10, Flds(<<Str("u"), Str("f"), Str("b")>>), <<" ", "t", " ", " ", "s">>),
                NoteRow(2, 11, Flds(<<Str("v"), Str("u")>>), NoStr)>>,
              <<CardRow(1, 1, 20, 0, SchedReview), CardRow(2, 2, 22, 0, SchedNew)>>),
   Collection(<<NoteRow(1, 10, Flds(<<Str("u"), Str("f")>>), Str("t")),
                NoteRow(2, 10, Flds(<<Str("u"), Str("f")>>), Str("t"))>>,
              <<CardRow(1, 1, 20, 0, SchedReview), CardRow(2, 2, 21, 0, SchedFiltered)>>),
   Collection(<<NoteRow(1, 10, Flds(<<Str("c"), Str("u")>>), Str("t")),
                NoteRow(2, 10, Flds(<<NoStr, NoStr>>), Str("t")),
                NoteRow(3, 11, Str("w"), Str("tt"))>>,
              <<CardRow(1, 1, 21, 0, SchedReview), CardRow(2, 1, 21, 1, SchedNew),
                CardRow(3, 2, 20, 0, SchedNew), CardRow(4, 3, 1, 0, SchedFiltered)>>),
   Collection(<<NoteRow(1, 10, Flds(<<Str("u"), Str("f"), Str("b")>>), Str("t"))>>,
              <<CardRow(1, 1, 20, 0, SchedNew)>>),
   Collection(<<>>, <<>>)}

MaxRows == 4

Filter(deck, noteType, tag, uidFieldIndex) ==
  [deck |-> deck, noteType |-> noteType, tag |-> tag, uidFieldIndex |-> uidFieldIndex]

\* --deck, --note-type, --tag and --uid-field: each alone, none, all, and a
\* deck name no deck has.
FilterUniverse ==
  {Filter(NoStr, NoStr, NoStr, 0), Filter(NoStr, NoStr, NoStr, 1),
   Filter(Str("A"), NoStr, NoStr, 0), Filter(NoStr, Str("M"), NoStr, 0),
   Filter(NoStr, NoStr, Str("t"), 0), Filter(Str("A"), Str("M"), Str("t"), 1),
   Filter(Str("Z"), NoStr, NoStr, 0)}

Options(f, inPath, dryRun, noBackup) ==
  [deck |-> f.deck, noteType |-> f.noteType, tag |-> f.tag,
   uidFieldIndex |-> f.uidFieldIndex, inPath |-> inPath, dryRun |-> dryRun,
   noBackup |-> noBackup]

SnapshotPath == <<"snap", ".", "json">>

SnapshotOptionsUniverse == {Options(f, NoStr, FALSE, FALSE) : f \in FilterUniverse}

RestoreOptionsUniverse ==
  {Options(f, SnapshotPath, d, n) : f \in FilterUniverse, d \in BOOLEAN, n \in BOOLEAN}
    \cup {Options(CHOOSE f \in FilterUniverse : TRUE, NoStr, FALSE, FALSE)}

SameFilters(o1, o2) ==
  /\ o1.deck = o2.deck /\ o1.noteType = o2.noteType /\ o1.tag = o2.tag
  /\ o1.uidFieldIndex = o2.uidFieldIndex

NoCommand ==
  [pc |-> "idle", cmd |-> "none", options |-> Idle, db |-> Idle, counts |-> Idle,
   changes |-> <<>>]

InitProg ==
  /\ disk \in [collection : DbUniverse \cup {Missing}, snapshot : {Missing, Corrupt},
               backups : {<<>>}, saved : {0}]
  /\ prog = NoCommand
  /\ hist = [snap |-> Idle, restore |-> Idle, modified |-> 0]
  /\ gen = Idle /\ runs = <<>>
  /\ CardsIdle /\ MainIdle /\ TsvIdle /\ ApkgIdle

\* node scripts/anki-progress.js snapshot
RunSnapshot(o) ==
  /\ prog.pc = "idle" /\ prog.cmd = "none"
  /\ IF disk.collection = Missing
     THEN /\ prog' = [NoCommand EXCEPT !.pc = "failed", !.cmd = "snapshot", !.options = o]
          /\ disk' = Aborted(disk, Idle)
          /\ hist' = hist
     ELSE LET snapshot == CmdSnapshot(disk.collection, o)
          IN /\ disk' = [disk EXCEPT !.snapshot = [json |-> snapshot]]
             /\ prog' = [NoCommand EXCEPT !.cmd = "snapshot", !.options = o,
                                          !.db = disk.collection]
             /\ hist' = [hist EXCEPT !.snap = [collection |-> disk.collection,
                                               options |-> o]]
  /\ UNCHANGED <<genVars, cardVars, mainVars, tsvVars, apkgVars>>

\* Anki reviews card i: its scheduling columns change.
Study(i) ==
  /\ prog.pc = "idle" /\ hist.restore = Idle
  /\ hist.modified < MaxModify
  /\ disk.collection # Missing
  /\ i \in DOMAIN disk.collection.cards
  /\ LET c == disk.collection.cards[i]
         next == IF Sched(c) = SchedReview THEN SchedFiltered ELSE SchedReview
     IN disk' = [disk EXCEPT !.collection.cards[i] =
                   [col \in CardCols |->
                      CASE col = "mod" -> 900 [] col = "usn" -> -1
                        [] col \in SchedCols -> next[col] [] OTHER -> c[col]]]
  /\ hist' = [hist EXCEPT !.modified = @ + 1]
  /\ UNCHANGED <<prog, genVars, cardVars, mainVars, tsvVars, apkgVars>>

\* Notes are deleted from, or a regenerated deck is imported into, the collection.
Reimport(db) ==
  /\ prog.pc = "idle" /\ hist.restore = Idle
  /\ hist.modified < MaxModify
  /\ disk.collection # Missing /\ disk.collection # db
  /\ disk' = [disk EXCEPT !.collection = db]
  /\ hist' = [hist EXCEPT !.modified = @ + 1]
  /\ UNCHANGED <<prog, genVars, cardVars, mainVars, tsvVars, apkgVars>>

\* node scripts/anki-progress.js restore, up to the end of the loop.  fault says
\* which call of the run throws, if any: opening the database ("open"),
\* db.prepare ("prepare"), or updateStmt.run for row failAt.
RestoreScan(o, fault, failAt) ==
  /\ prog.pc = "idle" /\ hist.restore = Idle
  /\ hist' = [hist EXCEPT !.restore = [collection |-> disk.collection,
                                       snapshot |-> disk.snapshot,
                                       backups |-> disk.backups,
                                       saved |-> disk.saved,
                                       options |-> o]]
  /\ LET failed(db) ==
           /\ prog' = [NoCommand EXCEPT !.pc = "failed", !.cmd = "restore",
                                        !.options = o, !.db = db]
           /\ disk' = Aborted(disk, db)
     IN IF o.inPath = NoStr \/ disk.snapshot = Missing \/ disk.snapshot = Corrupt
        THEN failed(Idle)
        ELSE IF disk.collection = Missing \/ fault = "open"
        THEN failed(Idle)
        ELSE IF fault = "prepare"
        THEN failed(disk.collection)
        ELSE LET st == RestoreScanOf(disk.collection, o, disk.snapshot.json.cards,
                                     IF fault = "update" THEN failAt ELSE 0)
                 db == [disk.collection EXCEPT !.cards = st.cards]
             IN IF st.threw
                THEN failed(db)
                ELSE /\ prog' = [pc |-> "scanned", cmd |-> "restore", options |-> o,
                                 db |-> db, counts |-> st.counts,
                                 changes |-> st.changes]
                     /\ disk' = disk
  /\ UNCHANGED <<genVars, cardVars, mainVars, tsvVars, apkgVars>>

\* if (options.dryRun) { ...; return; }
RestoreDryRunReturn ==
  /\ prog.pc = "scanned"
  /\ prog.options.dryRun
  /\ prog' = [prog EXCEPT !.pc = "done"]
  /\ UNCHANGED <<disk, hist, genVars, cardVars, mainVars, tsvVars, apkgVars>>

\* backupFile(options.collectionPath); the copy may fail.
RestoreBackup(ok) ==
  /\ prog.pc = "scanned"
  /\ ~prog.options.dryRun
  /\ NeedsBackup(prog.options)
  /\ IF ok
     THEN /\ disk' = [disk EXCEPT !.backups = Append(@, disk.collection)]
          /\ prog' = [prog EXCEPT !.pc = "backedup"]
     ELSE /\ disk' = Aborted(disk, prog.db)
          /\ prog' = [prog EXCEPT !.pc = "failed"]
  /\ UNCHANGED <<hist, genVars, cardVars, mainVars, tsvVars, apkgVars>>

\* saveDatabaseToFile(db, options.collectionPath)
RestoreSave ==
  /\ \/ prog.pc = "backedup"
     \/ prog.pc = "scanned" /\ ~prog.options.dryRun /\ ~NeedsBackup(prog.options)
  /\ disk' = [disk EXCEPT !.collection = prog.db, !.saved = @ + 1]
  /\ prog' = [prog EXCEPT !.pc = "done"]
  /\ UNCHANGED <<hist, genVars, cardVars, mainVars, tsvVars, apkgVars>>

NextProg ==
  \/ \E o \in SnapshotOptionsUniverse : RunSnapshot(o)
  \/ \E i \in 1..MaxRows : Study(i)
  \/ \E db \in DbUniverse : Reimport(db)
  \/ \E o \in RestoreOptionsUniverse, fault \in {"none", "open", "prepare"} :
        RestoreScan(o, fault, 0)
  \/ \E o \in RestoreOptionsUniverse, failAt \in 1..MaxRows :
        RestoreScan(o, "update", failAt)
  \/ RestoreDryRunReturn
  \/ \E ok \in BOOLEAN : RestoreBackup(ok)
  \/ RestoreSave

SpecProg == InitProg /\ [][NextProg]_vars

(***************************************************************************)
(* Properties of snapshot and restore                                      *)
(***************************************************************************)
Restoring == hist.restore # Idle

\* The restore loop has run to its end.
LoopDone == prog.cmd = "restore" /\ prog.pc \in {"scanned", "backedup", "done"}

\* The rows the restore scanned, and what became of row k.
RestoreRows ==
  QueryCardsWithNotes(hist.restore.collection,
                      DidsOf(hist.restore.collection, hist.restore.options),
                      MidsOf(hist.restore.collection, hist.restore.options))

RowsWith(outcome) ==
  {k \in DOMAIN RestoreRows :
     RowOutcome(RestoreRows[k], hist.restore.options, hist.restore.snapshot.json.cards)
       = outcome}

\* The databases a restore leaves: the file, and the in-memory one if opened.
DatabasesAfter == {disk.collection} \cup (IF prog.db # Idle THEN {prog.db} ELSE {})

CardWithId(db, cid) == db.cards[CHOOSE i \in DOMAIN db.cards : db.cards[i].id = cid]

\* C13: a restore that ends, run with the filters of the snapshot on the
\* collection the snapshot was taken from, leaves every card's scheduling
\* columns as they were.
C13_SnapshotRestoreNoOp ==
  (/\ prog.cmd = "restore" /\ prog.pc = "done"
   /\ hist.snap # Idle
   /\ hist.restore.collection = hist.snap.collection
   /\ SameFilters(hist.restore.options, hist.snap.options))
  => /\ DOMAIN disk.collection.cards = DOMAIN hist.snap.collection.cards
     /\ \A i \in DOMAIN disk.collection.cards :
          Sched(disk.collection.cards[i]) = Sched(hist.snap.collection.cards[i])

\* Columns in cols of every card, and every note, are as before the restore.
KeepsColumns(db, cols) ==
  /\ db.notes = hist.restore.collection.notes
  /\ DOMAIN db.cards = DOMAIN hist.restore.collection.cards
  /\ \A i \in DOMAIN db.cards :
       \A col \in cols : db.cards[i][col] = hist.restore.collection.cards[i][col]

\* Only cards the restore matched differ from what they were.
OnlyMatchedChanged(db) ==
  \A i \in DOMAIN db.cards :
    db.cards[i] # hist.restore.collection.cards[i]
      => /\ ~hist.restore.options.dryRun
         /\ \E k \in RowsWith("matched") : RestoreRows[k].cid = db.cards[i].id

\* C14 as stated: restore changes nothing but scheduling columns of matched
\* cards (id, nid, did, ord, mod, usn of every card and all notes are kept).
C14_OnlySchedulingOverwritten ==
  (Restoring /\ disk.collection # Missing) =>
    \A db \in DatabasesAfter :
      KeepsColumns(db, CardCols \ SchedCols) /\ OnlyMatchedChanged(db)

\* C14 amended: restore keeps id, nid, did, ord of every card and every note
\* row; the cards it changes are matched cards, and on those it overwrites the
\* scheduling columns together with mod and usn.
C14_IdentityAndContentKept ==
  (Restoring /\ disk.collection # Missing) =>
    \A db \in DatabasesAfter :
      /\ KeepsColumns(db, IdentityCols)
      /\ OnlyMatchedChanged(db)
      /\ db.decks = hist.restore.collection.decks
      /\ db.models = hist.restore.collection.models

C14_Witness ==
  /\ prog.cmd = "restore" /\ prog.pc = "done"
  /\ \E i \in DOMAIN disk.collection.cards :
       /\ Sched(disk.collection.cards[i]) # Sched(hist.restore.collection.cards[i])
       /\ disk.collection.cards[i].mod = NowSec
  /\ \E i \in DOMAIN disk.collection.cards :
       disk.collection.cards[i] = hist.restore.collection.cards[i]

\* C15: when the restore loop has ended, every scanned row was counted once:
\* scanned = eligible + skippedMissingUid + skippedTagFilter and eligible =
\* matched + missing; missing is the number of rows that pass the filters, have
\* a uid and whose key is absent from the snapshot, and the cards of those rows
\* are unchanged.
C15_MissingCardsUntouched ==
  LoopDone =>
    /\ prog.counts.scanned = Len(RestoreRows)
    /\ prog.counts.eligible = prog.counts.matched + prog.counts.missing
    /\ prog.counts.scanned = prog.counts.eligible + prog.counts.skippedMissingUid
                               + prog.counts.skippedTagFilter
    /\ prog.counts.missing = Cardinality(RowsWith("missing"))
    /\ prog.counts.matched = Cardinality(RowsWith("matched"))
    /\ \A k \in RowsWith("missing") :
         \A db \in DatabasesAfter :
           CardWithId(db, RestoreRows[k].cid)
             = CardWithId(hist.restore.collection, RestoreRows[k].cid)

C15_Witness ==
  /\ prog.cmd = "restore" /\ prog.pc = "done"
  /\ ~prog.options.dryRun
  /\ prog.counts.missing > 0 /\ prog.counts.matched > 0
  /\ prog.counts.skippedMissingUid > 0
  /\ disk.collection # hist.restore.collection

\* Every uid a card of the collection carries in field uidFieldIndex.
LiveUids(db, uidFieldIndex) ==
  {u \in {UidOfRow(JoinedRow(db, i), uidFieldIndex) : i \in DOMAIN db.cards} : ~NoUid(u)}

\* The snapshot entries whose uid no card of the live collection has.
StaleKeys ==
  {key \in DOMAIN hist.restore.snapshot.json.cards :
     ~\E u \in LiveUids(hist.restore.collection, hist.restore.options.uidFieldIndex),
         n \in 0..9 : key = MakeSnapshotKey(u, n)}

\* C16: when a snapshot is restored with the filters it was taken with, every
\* entry of it whose uid is no longer in the live collection is counted as
\* missing by the restore (and nothing is written for it).
C16_StaleEntriesCounted ==
  (LoopDone /\ hist.snap # Idle /\ SameFilters(hist.restore.options, hist.snap.options))
    => prog.counts.missing >= Cardinality(StaleKeys)

\* C17: the collection file is written only by a restore that is not a dry
\* run and, unless --no-backup is given, only after a backup holding the file
\* as it was; a dry run updates no card row, makes no backup, writes no file
\* and still reports the matched and missing counts.
C17_BackupBeforeWrite ==
  Restoring =>
    /\ disk.saved > hist.restore.saved =>
         /\ ~hist.restore.options.dryRun
         /\ ~hist.restore.options.noBackup =>
              /\ Len(disk.backups) = Len(hist.restore.backups) + 1
              /\ disk.backups[Len(disk.backups)] = hist.restore.collection
    /\ disk.collection # hist.restore.collection => disk.saved > hist.restore.saved
    /\ hist.restore.options.dryRun =>
         /\ disk.collection = hist.restore.collection
         /\ disk.backups = hist.restore.backups
         /\ disk.saved = hist.restore.saved
         /\ prog.db # Idle => prog.db = hist.restore.collection
         /\ prog.pc = "done" =>
              /\ prog.counts.matched = Cardinality(RowsWith("matched"))
              /\ prog.counts.missing = Cardinality(RowsWith("missing"))

C17_Witness ==
  /\ prog.cmd = "restore" /\ prog.pc = "done"
  /\ ~prog.options.dryRun /\ ~prog.options.noBackup
  /\ disk.saved = 1
  /\ disk.collection # hist.restore.collection
  /\ disk.backups = <<hist.restore.collection>>

SnapshotRows ==
  QueryCardsWithNotes(hist.snap.collection,
                      DidsOf(hist.snap.collection, hist.snap.options),
                      MidsOf(hist.snap.collection, hist.snap.options))

\* C19: the snapshot written holds, for every scanned card that passes the tag
\* filter and has a non-empty uid, an entry '<uid>::ord=<ord>' with that card's
\* scheduling state; the other cards are counted as skipped, and totalRows =
\* matchedCards + skippedMissingUid + skippedTagFilter.
C19_SnapshotHoldsEachCard ==
  (hist.snap # Idle /\ hist.restore = Idle) =>
    LET snapshot == disk.snapshot.json
    IN /\ snapshot.counts.totalRows = Len(SnapshotRows)
       /\ snapshot.counts.totalRows =
            snapshot.counts.matchedCards + snapshot.counts.skippedMissingUid
              + snapshot.counts.skippedTagFilter
       /\ \A k \in DOMAIN SnapshotRows :
            RowFilter(SnapshotRows[k], hist.snap.options) = "pass" =>
              /\ KeyOfRow(SnapshotRows[k], hist.snap.options) \in DOMAIN snapshot.cards
              /\ snapshot.cards[KeyOfRow(SnapshotRows[k], hist.snap.options)]
                   = Sched(SnapshotRows[k])

(***************************************************************************)
(* Properties of the tags, the checksum, the uid field and the scheduling  *)
(* columns                                                                 *)
(***************************************************************************)
Contains(s, sub) == \E i \in 1..Len(s) : StartsAt(s, i, sub)

\* C23: no tag of a card produced by generateCards contains the hierarchy
\* separator '::', while the card's deck keeps the separators of the deck name.
C23_TagsWithoutSeparator ==
  gcOut # Idle =>
    \A k \in DOMAIN gcOut.cards :
      /\ \A t \in DOMAIN gcOut.cards[k].tags : ~Contains(gcOut.cards[k].tags[t], SEP)
      /\ StartsAt(gcOut.cards[k].deck, 1, BaseDeck(gcIn.deckPath) \o SEP)

\* C30: the csum column of every note row is generateChecksum of the row's
\* sort field (sfld).
C30_ChecksumOfSortField ==
  \A a \in DOMAIN runs :
    \A i \in DOMAIN runs[a].db.notes :
      NoteAt(a, i).csum = GenerateChecksum(NoteAt(a, i).sfld)

\* C26: every note row written holds, in one of its 0x1f-separated fields, the
\* uid its guid was derived from.
C26_UidStoredInField ==
  \A a \in DOMAIN runs :
    \A i \in DOMAIN runs[a].db.notes :
      \E j \in DOMAIN SplitFields(NoteAt(a, i).flds) :
        GenerateGuidFromUid(SplitFields(NoteAt(a, i).flds)[j]) = NoteAt(a, i).guid

\* C29: every card row written carries the scheduling values of a new card -
\* type, queue, ivl, reps, lapses, left, odue, odid, flags 0, factor 2500, due
\* equal to its note id - and the revlog table is empty.
C29_NewCardScheduling ==
  \A a \in DOMAIN runs :
    /\ runs[a].db.revlog = <<>>
    /\ \A i \in DOMAIN runs[a].db.cards :
         LET c == CardAt(a, i)
         IN /\ c.type = 0 /\ c.queue = 0 /\ c.ivl = 0 /\ c.reps = 0 /\ c.lapses = 0
            /\ c.left = 0 /\ c.odue = 0 /\ c.odid = 0 /\ c.flags = 0
            /\ c.factor = 2500
            /\ c.due = c.nid

\* A call on a generator that has been used before, writing a note with two
\* cards: card ids and note ids differ.
C29_Witness ==
  \E a \in DOMAIN runs :
    /\ runs[a].mode = "cloze"
    /\ \E i \in DOMAIN runs[a].db.cards : CardAt(a, i).id # CardAt(a, i).nid
    /\ \E i \in DOMAIN runs[a].db.cards : CardAt(a, i).nid > 1

(***************************************************************************)
(* Files without a header row                                              *)
(***************************************************************************)
\* All the non-blank lines of a file.
AllRows(content) == SelectSeq(Split(content, NL), IsNonBlankLine)

\* C21: for a file written without a header row, every well-formed row of the
\* file, the first non-empty line included, yields an entry.
C21_HeaderRowOptional ==
  (tsvOut # Idle /\ tsvIn.exists /\ tsvIn.headerless) =>
    LET good == SelectSeq(AllRows(tsvIn.content), WellFormedRow)
    IN /\ Len(tsvOut.entries) = Len(good)
       /\ \A k \in DOMAIN good :
            /\ tsvOut.entries[k].term1 = Stripped(Column1(good[k]))
            /\ tsvOut.entries[k].term2 = Stripped(Column2(good[k]))

(***************************************************************************)
(* Direction labels, from the header row to the Direction field            *)
(***************************************************************************)
TrimmedOrEmpty(s) == IF IsBlank(s) THEN NoStr ELSE Stripped(s)

\* The first non-empty line of the file is a two-column header.
HasTwoColumnHeader(content) ==
  /\ Len(AllRows(content)) > 0
  /\ Cardinality(TabsOf(AllRows(content)[1])) = 1

Label1(content) == TrimmedOrEmpty(Column1(AllRows(content)[1]))
Label2(content) == TrimmedOrEmpty(Column2(AllRows(content)[1]))

\* C22: the direction label of every card main generates is '' unless labels
\* are enabled and the first non-empty line of the file is a two-column header;
\* then the recognition card carries '<label1> -> <label2>' and the production
\* card '<label2> -> <label1>'. The Direction field (the fourth field) of the
\* note written for a card equals the card's label, the empty string included.
C22_DirectionLabels ==
  /\ \A i \in DOMAIN deckOf :
       LET content == SourceFile(deckOf[i].filePath).content
           labelled == env.includeDirectionLabels /\ HasTwoColumnHeader(content)
       IN \A k \in DOMAIN deckOf[i].cards :
            LET card == deckOf[i].cards[k]
            IN card.directionLabel =
                 IF ~labelled THEN NoStr
                 ELSE IF card.type = Str("recognition")
                      THEN Label1(content) \o ARROW \o Label2(content)
                      ELSE Label2(content) \o ARROW \o Label1(content)
  /\ \A a \in DOMAIN runs :
       \A n \in DOMAIN runs[a].db.notes :
         /\ Len(SplitFields(NoteAt(a, n).flds)) = 4
         /\ SplitFields(NoteAt(a, n).flds)[4] = allCards[NoteAt(a, n).src].directionLabel

\* A run with labels enabled over a file with a header and a file without one:
\* a note with a Direction of 'A -> B' and a note with an empty Direction.
C22_Witness ==
  /\ pc = "done" /\ env.includeDirectionLabels
  /\ \E a \in DOMAIN runs :
       /\ \E n \in DOMAIN runs[a].db.notes :
            SplitFields(NoteAt(a, n).flds)[4] = Str("B") \o ARROW \o Str("A")
       /\ \E n \in DOMAIN runs[a].db.notes :
            SplitFields(NoteAt(a, n).flds)[4] = NoStr

(***************************************************************************)
(* Specification of generateApkg calls                                     *)
(***************************************************************************)
\* A card and a note that have no deck.
DecklessCard ==
  [type |-> Str("recognition"), deck |-> Undefined, front |-> Str("x"),
   back |-> Str("y"), uid |-> NoStr, tags |-> TagsRec, directionLabel |-> NoStr]

DecklessNote ==
  [type |-> Str("cloze"), deck |-> Undefined,
   text |-> Marker(<<"1">>) \o <<"x", "}", "}">>, hint |-> Str("h"),
   back |-> NoStr, uid |-> NoStr, tags |-> <<Str("cloze"), Str("T")>>]

ApkgUniverse(mode) ==
  IF mode = "cloze" THEN ClozeUniverse \cup {DecklessNote}
  ELSE GlossaryUniverse \cup {DecklessCard}

ApkgInputs(mode) == SeqsUpTo(ApkgUniverse(mode), MaxCards)

InitApkg ==
  /\ gen \in {Constructor(m) : m \in Modes}
  /\ runs = <<>>
  /\ apkgFile \in {Missing, OldArchive}
  /\ apkgCall = Idle
  /\ CardsIdle /\ MainIdle /\ TsvIdle /\ ProgIdle

\* await generator.generateApkg(cards, outputPath)
CallGenerateApkg(cards, fault) ==
  /\ apkgCall = Idle
  /\ \E r \in {GenerateApkg(gen, cards, apkgFile, fault)} :
        /\ gen' = r.gen
        /\ runs' = IF r.built = Idle THEN runs ELSE Append(runs, RunOf(gen, cards, r.built))
        /\ apkgFile' = r.file
        /\ apkgCall' = [cards |-> cards, fault |-> fault, before |-> apkgFile,
                        threw |-> r.threw]
  /\ UNCHANGED <<cardVars, mainVars, tsvVars, progVars>>

NextApkg == \E cards \in ApkgInputs(gen.mode), fault \in ApkgFaults : CallGenerateApkg(cards, fault)

SpecApkg == InitApkg /\ [][NextApkg]_vars

\* C24: generateApkg writes the output path only as its last step. When
\* building the database or the archive fails, the error is thrown to the
\* caller as it was raised and the file at the output path is what it was
\* before the call; when the call returns, the file is the complete new
\* archive - the database built from the cards and the empty media entry -
\* whatever was there before.
C24_OutputWrittenLast ==
  apkgCall # Idle =>
    /\ (apkgCall.fault = "database") => apkgCall.threw = "database"
    /\ (apkgCall.fault # "database" /\ HasDecklessCard(apkgCall.cards)) =>
         apkgCall.threw = "TypeError"
    /\ (apkgCall.fault = "zip" /\ ~HasDecklessCard(apkgCall.cards)) =>
         apkgCall.threw = "zip"
    /\ (apkgCall.threw \in {"database", "zip", "TypeError"}) => apkgFile = apkgCall.before
    /\ (apkgCall.threw = NoError) =>
         /\ Len(runs) = 1
         /\ runs[1].input = apkgCall.cards
         /\ apkgFile = [collection |-> runs[1].db, media |-> <<"{", "}">>]

\* A call that returned with a file already at the output path, and the file
\* now holds the notes of the call.
C24_Witness ==
  /\ apkgCall # Idle
  /\ apkgCall.threw = NoError
  /\ apkgCall.before = OldArchive
  /\ apkgFile # OldArchive
  /\ Len(apkgFile.collection.notes) = 2

\* C27: in every database generateApkg builds, the did of each card row is the
\* id of a deck of the decks blob - the id given to the card's full deck-path,
\* or 1, the Default deck, when the card's deck is not in the deck structure -
\* and the nid of each card row is the id of a note row; a card whose deck
\* cannot be looked up does not make the serializer throw.
C27_CardReferences ==
  /\ \A a \in DOMAIN runs :
       \A i \in DOMAIN runs[a].db.cards :
         LET c == CardAt(a, i)
             n == CHOOSE n \in DOMAIN runs[a].db.notes : NoteAt(a, n).id = c.nid
             deck == runs[a].input[NoteAt(a, n).src].deck
         IN /\ \E m \in DOMAIN runs[a].db.notes : NoteAt(a, m).id = c.nid
            /\ c.did \in DOMAIN runs[a].db.col.decks
            /\ c.did = IF deck \in DOMAIN runs[a].decks.val
                       THEN runs[a].decks.val[deck].id ELSE DefaultDeckId
  /\ (apkgCall # Idle /\ apkgCall.fault = "none") => apkgCall.threw = NoError

(***************************************************************************)
(* main: how a run ends, and the order of its stages                       *)
(***************************************************************************)
\* The folder named on the command line is not in data/.
TargetFolderNotFound ==
  /\ env.targetFolder # NoStr
  /\ ~\E k \in DOMAIN env.files :
        Len(env.files[k].dir) > 0 /\ env.files[k].dir[1] = env.targetFolder

\* The run was aborted by a structural error or by a serialization error.
MainAborted ==
  \/ TargetFolderNotFound
  \/ output.threw # NoError

\* C25: a run that aborts with a structural error (the target folder is not
\* found) or with a serialization error ends with a non-zero exit status and
\* leaves no package written.
C25_AbortExitsNonZero ==
  (pc = "done" /\ MainAborted) =>
    /\ output.exitCode # 0
    /\ apkgFile = Missing

RECURSIVE ConcatCards(_)
ConcatCards(recs) ==
  IF Len(recs) = 0 THEN <<>> ELSE recs[1].cards \o ConcatCards(Tail(recs))

\* Position of the file read as filePath in the list findTSVFiles returned.
FoundAt(filePath) == CHOOSE k \in DOMAIN tsvFiles : tsvFiles[k].filePath = filePath

\* Position of a statement in the log of a createSQLiteDatabase call.
StatementAt(log, stmt) == CHOOSE k \in DOMAIN log : log[k] = stmt

\* C28: main handles the files one at a time in the order found and
\* concatenates their cards in that order; the deck tree is built and the
\* package serialized once, after every file, over the combined card list; and
\* in the serialization the collection row is inserted before the note-type and
\* deck blobs are updated and before any note or card is inserted, so that the
\* blobs of the database hold the note type and the decks.
C28_StagesInOrder ==
  /\ \A i, j \in DOMAIN deckOf :
       /\ FoundAt(deckOf[i].filePath) < fileIdx
       /\ i < j => FoundAt(deckOf[i].filePath) < FoundAt(deckOf[j].filePath)
  /\ allCards = ConcatCards(deckOf)
  /\ Len(runs) <= 1
  /\ (pc # "done") => (runs = <<>> /\ apkgCall = Idle)
  /\ (apkgCall # Idle) => (fileIdx = Len(tsvFiles) + 1 /\ apkgCall.cards = allCards)
  /\ (pc = "done" /\ output.threw = NoError /\ Len(tsvFiles) > 0) => Len(runs) = 1
  /\ \A a \in DOMAIN runs :
       /\ runs[a].input = allCards
       /\ StatementAt(runs[a].log, "INSERT INTO col")
            < StatementAt(runs[a].log, "UPDATE col SET models")
       /\ StatementAt(runs[a].log, "INSERT INTO col")
            < StatementAt(runs[a].log, "UPDATE col SET decks")
       /\ StatementAt(runs[a].log, "INSERT INTO col")
            < StatementAt(runs[a].log, "INSERT INTO notes, cards")
       /\ runs[a].db.col # NoRow
       /\ runs[a].db.col.models = {runs[a].pre.noteTypeId}
       /\ \A c \in DOMAIN runs[a].db.cards : CardAt(a, c).did \in DOMAIN runs[a].db.col.decks

\* A run over two files that both gave cards, serialized at the end.
C28_Witness ==
  /\ pc = "done"
  /\ Len(deckOf) = 2
  /\ Len(runs) = 1
  /\ Len(runs[1].db.notes) = Len(deckOf[1].cards) + Len(deckOf[2].cards)
  /\ apkgFile # Missing /\ output.threw = NoError

====
